---------------------------- MODULE Spec2Model ----------------------------
(***************************************************************************)
(* The replay-and-matching engine of src/strategies/backtester.py:         *)
(* run_backtest (the timestamp loop: build the state, call the trader,     *)
(* limit guard, matching, accounting) and merge_results.                   *)
(*                                                                         *)
(* Python values are modelled as follows.                                  *)
(*   dict            a function whose DOMAIN is the set of keys            *)
(*   list            a sequence                                            *)
(*   set of products its iteration order, a sequence without repeats (the  *)
(*                   order is fixed for one process and chosen in Init)    *)
(*   float           prices*volumes are integers; a mid price is kept in   *)
(*                   half units (2 * value), so int() is \div 2            *)
(*   str (stdout)    a sequence of atoms, see Atom                         *)
(* The historical trade feed (data.trades) is only handed through to the   *)
(* trader and is left out.                                                 *)
(***************************************************************************)
EXTENDS Integers, Sequences, FiniteSets, TLC

\* ------------------------------------------------------------------ bounds

\* Number of timestamps of the replayed day.
MaxTimestamps == 2

\* Longest batch (list of orders under one key) the trader returns.
MaxOrders == 2

\* Number of days main replays in one run (the length of its list `days`).
MaxSessions == 2

\* ------------------------------------------------------- program constants

LIMITS ==
    [p \in {"PEARLS", "BANANAS", "COCONUTS", "PINA_COLADAS", "DIVING_GEAR",
            "BERRIES", "BAGUETTE", "DIP", "UKULELE", "PICNIC_BASKET"} |->
        CASE p = "PEARLS" -> 20
          [] p = "BANANAS" -> 20
          [] p = "COCONUTS" -> 600
          [] p = "PINA_COLADAS" -> 300
          [] p = "DIVING_GEAR" -> 50
          [] p = "BERRIES" -> 250
          [] p = "BAGUETTE" -> 150
          [] p = "DIP" -> 300
          [] p = "UKULELE" -> 70
          [] p = "PICNIC_BASKET" -> 70]

\* ------------------------------------------------------------ dict helpers

EmptyDict == [k \in {} |-> k]

\* dict.get(k, default)
Get(d, k, default) == IF k \in DOMAIN d THEN d[k] ELSE default

\* dict.pop(k) for a key that is present
Pop(d, k) == [x \in (DOMAIN d) \ {k} |-> d[x]]

\* d[k] = v
Put(d, k, v) == [x \in (DOMAIN d) \cup {k} |-> IF x = k THEN v ELSE d[x]]

Min2(a, b) == IF a <= b THEN a ELSE b

Abs(n) == IF n < 0 THEN -n ELSE n

RECURSIVE SortedAsc(_)
\* sorted(S) for a finite set of integers
SortedAsc(S) ==
    IF S = {} THEN <<>>
    ELSE LET m == CHOOSE x \in S : \A y \in S : x <= y
         IN <<m>> \o SortedAsc(S \ {m})

RECURSIVE SortedDesc(_)
\* sorted(S, reverse=True)
SortedDesc(S) ==
    IF S = {} THEN <<>>
    ELSE LET m == CHOOSE x \in S : \A y \in S : x >= y
         IN <<m>> \o SortedDesc(S \ {m})

RECURSIVE SumSeq(_)
SumSeq(s) == IF s = <<>> THEN 0 ELSE Head(s) + SumSeq(Tail(s))

Range(s) == {s[i] : i \in DOMAIN s}


\* --------------------------------------------------------- historical data

\* PriceRow as read_day_data builds it: the level lists hold the leading
\* non-blank columns (get_column_values), best level first.
PriceRow(day, timestamp, product, bids, asks, mid2) ==
    [day |-> day,
     timestamp |-> timestamp,
     product |-> product,
     bid_prices |-> [i \in DOMAIN bids |-> bids[i][1]],
     bid_volumes |-> [i \in DOMAIN bids |-> bids[i][2]],
     ask_prices |-> [i \in DOMAIN asks |-> asks[i][1]],
     ask_volumes |-> [i \in DOMAIN asks |-> asks[i][2]],
     mid_price |-> mid2,
     profit_loss |-> 0]

\* The books a price file quotes, as <<product, bids, asks, 2 * mid price>>;
\* each level is <<price, volume>>.  DOLPHIN_SIGHTINGS quotes no level.
Snapshots ==
    << { <<"PEARLS", << <<10, 5>>, <<9, 25>>, <<8, 5>> >>,
                     << <<11, 5>>, <<12, 25>>, <<13, 5>> >>, 21>>,
         <<"BANANAS", << <<10, 5>> >>, << <<12, 5>> >>, 22>>,
         <<"DOLPHIN_SIGHTINGS", <<>>, <<>>, 61>> },
       { <<"PEARLS", << <<13, 5>> >>, << <<14, 5>> >>, 27>>,
         <<"BANANAS", << <<10, 25>>, <<9, 5>> >>, << <<11, 5>>, <<12, 25>> >>, 21>>,
         <<"DOLPHIN_SIGHTINGS", <<>>, <<>>, 63>> },
       { <<"PEARLS", << <<10, 5>> >>, << <<12, 5>> >>, 22>>,
         <<"BANANAS", << <<10, 5>> >>, <<>>, 20>>,
         <<"DOLPHIN_SIGHTINGS", <<>>, <<>>, 61>> } >>

\* The timestamp of the i-th snapshot of a day (price files step by 100).
TimestampOf(i) == (i - 1) * 100

\* data.prices of day k, which starts at snapshot k of the cycle: a set of
\* rows here, since run_backtest only indexes it by (timestamp, product).
DayPrices(k) ==
    UNION { { PriceRow(k, TimestampOf(i), q[1], q[2], q[3], q[4]) :
                q \in Snapshots[((i - 1 + k) % Len(Snapshots)) + 1] } :
            i \in 1..MaxTimestamps }

Days == { DayPrices(k) : k \in 0..(Len(Snapshots) - 1) }

\* prices_by_timestamp[timestamp][product]
PricesByTimestamp(rows) ==
    [ts \in {r.timestamp : r \in rows} |->
        [p \in {r.product : r \in {x \in rows : x.timestamp = ts}} |->
            CHOOSE r \in rows : r.timestamp = ts /\ r.product = p]]

TradableProducts(rows) == {r.product : r \in {x \in rows : Len(x.bid_prices) > 0}}

NonTradableProducts(rows) == {r.product : r \in {x \in rows : Len(x.bid_prices) = 0}}

\* The orders in which Python may iterate a set of products.
RECURSIVE IterationOrders(_)
IterationOrders(S) ==
    IF S = {} THEN {<<>>}
    ELSE UNION { { <<x>> \o rest : rest \in IterationOrders(S \ {x}) } : x \in S }

\* zip(prices, volumes) written into a dict: a later equal price overwrites.
LevelDict(prices, volumes, sign) ==
    LET n == Min2(Len(prices), Len(volumes))
    IN [price \in {prices[i] : i \in 1..n} |->
           LET last == CHOOSE i \in 1..n :
                   prices[i] = price /\ \A j \in 1..n : prices[j] = price => j <= i
           IN sign * volumes[last]]

\* ------------------------------------------------------ the trader's output

Order(symbol, price, quantity) ==
    [symbol |-> symbol, price |-> price, quantity |-> quantity]

Trade(symbol, price, quantity, buyer, seller, timestamp) ==
    [symbol |-> symbol, price |-> price, quantity |-> quantity,
     buyer |-> buyer, seller |-> seller, timestamp |-> timestamp]

RECURSIVE Digits(_)
\* str(n) for n >= 0, as its decimal digits
Digits(n) == IF n < 10 THEN <<n>> ELSE Digits(n \div 10) \o <<n % 10>>

\* Printed text is a sequence of atoms.  An atom [key, digits] is the text
\* "key":digits followed by a character that is no digit; the keys
\* "timestamp" and "t" are the markers with_offset rewrites.
Atom(key, digits) == [key |-> key, digits |-> digits]

\* <<limit price, quantity>> of the orders the trader may place.
OrderShapes == { <<12, 3>>, <<12, 20>>, <<9, 20>>, <<9, -3>>, <<9, -20>>, <<12, -20>> }

\* All lists of length lo..hi over the set of orders S.
ListsOf(S, lo, hi) == UNION { [1..n -> S] : n \in lo..hi }

\* The mappings trader.run may return for the products `tradable`:
\* nothing; an empty list; one order under its own symbol; the same order
\* under its own symbol and under another key; a list of orders; an order
\* under another product's key next to one under a key that is no product
\* of the data.
OrderMaps(tradable) ==
    {EmptyDict}
    \cup { k :> <<>> : k \in tradable }
    \cup { k :> <<Order(k, sh[1], sh[2])>> : k \in tradable, sh \in OrderShapes }
    \cup UNION { { (k :> <<Order(s, 12, q)>>) @@ (s :> <<Order(s, 12, q)>>) :
                     s \in tradable \ {k}, q \in {3, 20} } : k \in tradable }
    \cup UNION { { k :> l :
                     l \in ListsOf({Order(k, 12, 3), Order(k, 9, -20)}, 2, MaxOrders) } :
                   k \in {"PEARLS"} \cap tradable }
    \cup UNION { { (k :> <<Order(s, 12, 3)>>) @@ ("COCONUTS" :> <<Order(s, 12, 30)>>) :
                     s \in tradable \ {k} } : k \in tradable }

\* What one call of trader.run(state) gives: the mapping and the text printed.
TraderReturns(timestamp, tradable) ==
    { [orders |-> m, stdout |-> <<>>] : m \in OrderMaps(tradable) }
    \cup { [orders |-> EmptyDict,
            stdout |-> <<Atom("timestamp", Digits(timestamp))>>] }

\* ------------------------------------------------------------------- state

VARIABLES
    prices,                 \* data.prices
    tradable_products,      \* the set, as its iteration order
    non_tradable_products,  \* the set, as its iteration order
    pc,                     \* where run_backtest is
    t,                      \* index of the timestamp in sorted(prices_by_timestamp)
    own_positions,
    own_trades,
    seashells_by_product,
    order_depths,
    state,                  \* the TradingState of the last call of trader.run
    orders_by_symbol,
    result,                 \* the DayResult's three logs
    i,                      \* index into tradable_products (validating, matching)
    j,                      \* index into the batch being matched
    a,                      \* merge_results: the earlier DayResult
    b,                      \* merge_results: the later DayResult
    merge_profit_loss,      \* merge_results: the continuity flag
    merged,                 \* merge_results: the DayResult returned
    session,                \* main: index of the run_backtest call in `days`
    results,                \* main: the list reduce folds
    rest,                   \* reduce: the results not folded in yet
    args,                   \* main: args.days, as <<round, day>> pairs
    days,                   \* main: sorted(days)
    traders                 \* main: the Trader instances created so far

session_vars ==
    <<prices, tradable_products, non_tradable_products, t, own_positions,
      own_trades, seashells_by_product, order_depths, state, orders_by_symbol,
      result, i, j>>

merge_vars == <<a, b, merge_profit_loss, merged, results, rest>>

main_vars == <<args, days, traders>>

vars == <<session_vars, merge_vars, main_vars, session, pc>>

DayResult(round, day, sandbox_logs, submission_logs, activity_logs) ==
    [round |-> round, day |-> day, sandbox_logs |-> sandbox_logs,
     submission_logs |-> submission_logs, activity_logs |-> activity_logs]

\* No DayResult: what the merge variables hold while a session is replayed.
NoResult == DayResult(0, 0, <<>>, <<>>, <<>>)

\* The day column of the price file read.
DayOf(rows) == CHOOSE d \in {r.day : r \in rows} : TRUE

\* sorted(prices_by_timestamp.keys())
Timestamps == SortedAsc(DOMAIN PricesByTimestamp(prices))

timestamp == Timestamps[t]

NoState ==
    [timestamp |-> -1, listings |-> EmptyDict, order_depths |-> EmptyDict,
     own_trades |-> EmptyDict, position |-> EmptyDict, observations |-> EmptyDict]

Init ==
    /\ prices \in Days
    /\ tradable_products \in IterationOrders(TradableProducts(prices))
    /\ non_tradable_products \in IterationOrders(NonTradableProducts(prices))
    /\ pc = "call"
    /\ t = 1
    /\ own_positions = [p \in TradableProducts(prices) |-> 0]
    /\ own_trades = EmptyDict
    /\ seashells_by_product = [p \in TradableProducts(prices) |-> 0]
    /\ order_depths = EmptyDict
    /\ state = NoState
    /\ orders_by_symbol = EmptyDict
    /\ result = DayResult(1, DayOf(prices), <<>>, <<>>, <<>>)
    /\ i = 0
    /\ j = 0
    /\ a = NoResult
    /\ b = NoResult
    /\ merge_profit_loss = FALSE
    /\ merged = NoResult
    /\ session = 1
    /\ results = <<>>
    /\ rest = <<>>
    /\ args = <<>>
    /\ days = <<>>
    /\ traders = <<>>

\* ------------------------------------------------- building the state, call

\* Mutant of OrderDepth: the book of the previous timestamp is filled again.
StaleOrderDepth(product) ==
    Get(order_depths, product, [buy_orders |-> EmptyDict, sell_orders |-> EmptyDict])

\* OrderDepth(): the empty book order_depths[product] starts from.
OrderDepth(product) == [buy_orders |-> EmptyDict, sell_orders |-> EmptyDict]

\* The book of one product, filled from its price row.
BuildOrderDepth(row) ==
    LET depth == OrderDepth(row.product)
    IN [buy_orders |-> LevelDict(row.bid_prices, row.bid_volumes, 1) @@ depth.buy_orders,
        sell_orders |-> LevelDict(row.ask_prices, row.ask_volumes, -1) @@ depth.sell_orders]

BuildOrderDepths(ts) ==
    [p \in Range(tradable_products) |-> BuildOrderDepth(PricesByTimestamp(prices)[ts][p])]

\* Mutant of StateOwnTrades: the state is built before the trades are known.
StateOwnTradesNone == EmptyDict

\* own_trades as the TradingState carries it: dict(own_trades).
StateOwnTrades == own_trades

BuildState(ts, depths) ==
    [timestamp |-> ts,
     listings |-> [p \in Range(tradable_products) |->
                     [symbol |-> p, product |-> p, denomination |-> "SEASHELLS"]],
     order_depths |-> depths,
     own_trades |-> StateOwnTrades,
     position |-> [p \in {q \in DOMAIN own_positions : own_positions[q] /= 0} |->
                     own_positions[p]],
     observations |-> [p \in Range(non_tradable_products) |->
                         PricesByTimestamp(prices)[ts][p].mid_price \div 2]]

SandboxLogRow(ts, data) == [timestamp |-> ts, data |-> data]

SubmissionLogRow(ts, data) == [timestamp |-> ts, data |-> data]

\* One pass of the loop head: the books and the state are built, trader.run
\* returns, and the text it printed becomes this timestamp's sandbox row.
\* Without a tradable product the guard's loop and the matching loop have
\* nothing to iterate over (own_trades is empty then, before and after).
CallTrader ==
    /\ pc = "call"
    /\ t <= Len(Timestamps)
    /\ LET depths == BuildOrderDepths(timestamp)
           st == BuildState(timestamp, depths)
       IN /\ order_depths' = depths
          /\ state' = st
          /\ \E out \in TraderReturns(timestamp, Range(tradable_products)) :
                /\ orders_by_symbol' = out.orders
                /\ result' = [result EXCEPT !.sandbox_logs =
                                 Append(@, SandboxLogRow(timestamp, out.stdout))]
    /\ pc' = IF Len(tradable_products) = 0 THEN "account" ELSE "validate"
    /\ i' = 1
    /\ UNCHANGED <<merge_vars, main_vars, session, prices, tradable_products, non_tradable_products, t, own_positions,
                   own_trades, seashells_by_product, j>>

\* Mutant of TraderRaises: the exception is swallowed and the loop goes on
\* with the next timestamp.
TraderRaisesSwallowed ==
    /\ pc = "call"
    /\ t <= Len(Timestamps)
    /\ LET depths == BuildOrderDepths(timestamp)
       IN /\ order_depths' = depths
          /\ state' = BuildState(timestamp, depths)
    /\ pc' = "call"
    /\ t' = t + 1
    /\ UNCHANGED <<merge_vars, main_vars, session, prices, tradable_products, non_tradable_products,
                   own_positions, own_trades, seashells_by_product, orders_by_symbol,
                   result, i, j>>

\* trader.run raises: the exception leaves run_backtest.
TraderRaises ==
    /\ pc = "call"
    /\ t <= Len(Timestamps)
    /\ LET depths == BuildOrderDepths(timestamp)
       IN /\ order_depths' = depths
          /\ state' = BuildState(timestamp, depths)
    /\ pc' = "aborted"
    /\ UNCHANGED <<merge_vars, main_vars, session, prices, tradable_products, non_tradable_products, t, own_positions,
                   own_trades, seashells_by_product, orders_by_symbol, result, i, j>>

\* ------------------------------------------------------------- limit guard

TotalLong(orders) ==
    SumSeq([k \in DOMAIN orders |->
              IF orders[k].quantity > 0 THEN orders[k].quantity ELSE 0])

TotalShort(orders) ==
    SumSeq([k \in DOMAIN orders |->
              IF orders[k].quantity < 0 THEN Abs(orders[k].quantity) ELSE 0])

\* Mutant of ExceedsLimit: buys and sells of the batch are netted first.
ExceedsLimitNetted(current_position, orders, limit) ==
    Abs(current_position + SumSeq([k \in DOMAIN orders |-> orders[k].quantity])) > limit

\* The condition of the if: the batch would breach the limit.
ExceedsLimit(current_position, orders, limit) ==
    \/ current_position + TotalLong(orders) > limit
    \/ current_position - TotalShort(orders) < -limit

RejectionText(product) ==
    <<"Orders for product", product, "exceeded limit of", LIMITS[product], "set">>

\* The first index >= k of tradable_products whose batch holds an order, or
\* Len(tradable_products) + 1.
RECURSIVE FirstBatchFrom(_, _)
FirstBatchFrom(obs, k) ==
    IF k > Len(tradable_products) THEN k
    ELSE IF Len(Get(obs, tradable_products[k], <<>>)) > 0 THEN k
    ELSE FirstBatchFrom(obs, k + 1)

\* Where the matching loops stand once the guard is through or an order is
\* done: at the next order, or past the last one.
Advance(obs, k, l) ==
    IF k <= Len(tradable_products) /\ l <= Len(Get(obs, tradable_products[k], <<>>))
    THEN <<k, l>>
    ELSE <<FirstBatchFrom(obs, k + 1), 1>>

\* Mutant of StartMatching: the own trades of the timestamp before are kept.
StartMatchingKeepsTrades(obs) ==
    LET at == FirstBatchFrom(obs, 1)
    IN /\ own_trades' = own_trades
       /\ i' = at
       /\ j' = 1
       /\ pc' = IF at > Len(tradable_products) THEN "account" ELSE "match"

\* After the guard's loop: own_trades = defaultdict(list), and matching starts.
StartMatching(obs) ==
    LET at == FirstBatchFrom(obs, 1)
    IN /\ own_trades' = EmptyDict
       /\ i' = at
       /\ j' = 1
       /\ pc' = IF at > Len(tradable_products) THEN "account" ELSE "match"

\* Mutant of GuardDone: matching starts after the first product's batch.
GuardDoneEarly == TRUE

\* The guard's for loop has no product left after tradable_products[i].
GuardDone == i = Len(tradable_products)

\* One pass of the guard's loop, for tradable_products[i].
ValidateProduct ==
    /\ pc = "validate"
    /\ LET product == tradable_products[i]
           orders == Get(orders_by_symbol, product, <<>>)
           current_position == own_positions[product]
           row == SubmissionLogRow(timestamp, RejectionText(product))
       IN IF ExceedsLimit(current_position, orders, LIMITS[product])
          THEN /\ result' = [result EXCEPT !.submission_logs = Append(@, row)]
               /\ \/ /\ product \in DOMAIN orders_by_symbol
                     /\ orders_by_symbol' = Pop(orders_by_symbol, product)
                     /\ IF GuardDone
                        THEN StartMatching(orders_by_symbol')
                        ELSE /\ i' = i + 1
                             /\ UNCHANGED <<pc, j, own_trades>>
                  \/ \* pop of a key the trader did not return: KeyError
                     /\ product \notin DOMAIN orders_by_symbol
                     /\ pc' = "aborted"
                     /\ UNCHANGED <<orders_by_symbol, i, j, own_trades>>
          ELSE /\ UNCHANGED <<result, orders_by_symbol>>
               /\ IF GuardDone
                  THEN StartMatching(orders_by_symbol)
                  ELSE /\ i' = i + 1
                       /\ UNCHANGED <<pc, j, own_trades>>
    /\ UNCHANGED <<merge_vars, main_vars, session, prices, tradable_products, non_tradable_products, t, own_positions,
                   seashells_by_product, order_depths, state>>

\* ---------------------------------------------------------------- matching

\* Mutant of BuyPriceMatches: the limit price is not looked at.
BuyPriceMatchesAll(sell_orders, order) == SortedAsc(DOMAIN sell_orders)

\* sorted(price for price in sell_orders.keys() if price <= order.price)
BuyPriceMatches(sell_orders, order) ==
    SortedAsc({price \in DOMAIN sell_orders : price <= order.price})

\* Mutant of SellPriceMatches: reverse=True is forgotten.
SellPriceMatchesAscending(buy_orders, order) ==
    SortedAsc({price \in DOMAIN buy_orders : price >= order.price})

\* sorted((price for price in buy_orders.keys() if price >= order.price), reverse=True)
SellPriceMatches(buy_orders, order) ==
    SortedDesc({price \in DOMAIN buy_orders : price >= order.price})

\* Mutant of BuyVolume: the whole level is taken, whatever is left to fill.
BuyVolumeWholeLevel(quantity, level) == Abs(level)

\* volume = min(order.quantity, abs(order_depth.sell_orders[price]))
BuyVolume(quantity, level) == Min2(quantity, Abs(level))

\* Mutant of SellVolume: the fill is not capped by what the level holds.
SellVolumeUncapped(quantity, level) == Abs(quantity)

\* volume = min(abs(order.quantity), order_depth.buy_orders[price])
SellVolume(quantity, level) == Min2(Abs(quantity), level)

\* The loop over price_matches of a buy order.  book is sell_orders,
\* quantity is order.quantity, fills lists <<price, volume>> of each trade.
RECURSIVE BuyLoop(_, _, _, _)
BuyLoop(book, price_matches, quantity, fills) ==
    IF price_matches = <<>>
    THEN [book |-> book, quantity |-> quantity, fills |-> fills]
    ELSE LET price == Head(price_matches)
             volume == BuyVolume(quantity, book[price])
             level == book[price] + volume
             book2 == IF level = 0 THEN Pop(book, price) ELSE Put(book, price, level)
             quantity2 == quantity - volume
             fills2 == Append(fills, <<price, volume>>)
         IN IF quantity2 = 0
            THEN [book |-> book2, quantity |-> quantity2, fills |-> fills2]
            ELSE BuyLoop(book2, Tail(price_matches), quantity2, fills2)

\* The loop over price_matches of a sell order.  book is buy_orders.
RECURSIVE SellLoop(_, _, _, _)
SellLoop(book, price_matches, quantity, fills) ==
    IF price_matches = <<>>
    THEN [book |-> book, quantity |-> quantity, fills |-> fills]
    ELSE LET price == Head(price_matches)
             volume == SellVolume(quantity, book[price])
             level == book[price] - volume
             book2 == IF level = 0 THEN Pop(book, price) ELSE Put(book, price, level)
             quantity2 == quantity + volume
             fills2 == Append(fills, <<price, volume>>)
         IN IF quantity2 = 0
            THEN [book |-> book2, quantity |-> quantity2, fills |-> fills2]
            ELSE SellLoop(book2, Tail(price_matches), quantity2, fills2)

\* Mutant of ExecutionSymbol: the key the batch was returned under.
ExecutionSymbolKey(product, order) == product

\* The symbol whose book, position and cash an order is executed against.
ExecutionSymbol(product, order) == order.symbol

BuyTrade(symbol, fill, ts) == Trade(symbol, fill[1], fill[2], "SUBMISSION", "", ts)

SellTrade(symbol, fill, ts) == Trade(symbol, fill[1], fill[2], "", "SUBMISSION", ts)

\* sum of price * volume over the fills
RECURSIVE FillsValue(_)
FillsValue(fills) ==
    IF fills = <<>> THEN 0 ELSE Head(fills)[1] * Head(fills)[2] + FillsValue(Tail(fills))

\* Mutant of FillsVolume: every fill counts as one unit.
FillsVolumeCount(fills) == Len(fills)

\* sum of the volumes of the fills
RECURSIVE FillsVolume(_)
FillsVolume(fills) ==
    IF fills = <<>> THEN 0 ELSE Head(fills)[2] + FillsVolume(Tail(fills))

\* The order the matching loops stand at.
CurrentOrder == orders_by_symbol[tradable_products[i]][j]

\* One pass of the inner matching loop: the order at (i, j) is executed
\* against the book of its symbol.
MatchOrder ==
    /\ pc = "match"
    /\ LET product == tradable_products[i]
           order == CurrentOrder
           symbol == ExecutionSymbol(product, order)
           order_depth == order_depths[symbol]
           buy == order.quantity > 0
           sell == order.quantity < 0
           done == IF buy
                   THEN BuyLoop(order_depth.sell_orders,
                                BuyPriceMatches(order_depth.sell_orders, order),
                                order.quantity, <<>>)
                   ELSE IF sell
                   THEN SellLoop(order_depth.buy_orders,
                                 SellPriceMatches(order_depth.buy_orders, order),
                                 order.quantity, <<>>)
                   ELSE [book |-> <<>>, quantity |-> order.quantity, fills |-> <<>>]
           trades == [k \in DOMAIN done.fills |->
                        IF buy THEN BuyTrade(symbol, done.fills[k], timestamp)
                        ELSE SellTrade(symbol, done.fills[k], timestamp)]
           next == Advance(orders_by_symbol, i, j + 1)
       IN /\ own_trades' =
                IF done.fills = <<>> THEN own_trades
                ELSE Put(own_trades, symbol, Get(own_trades, symbol, <<>>) \o trades)
          /\ own_positions' =
                [own_positions EXCEPT ![symbol] =
                    IF buy THEN @ + FillsVolume(done.fills)
                    ELSE @ - FillsVolume(done.fills)]
          /\ seashells_by_product' =
                [seashells_by_product EXCEPT ![symbol] =
                    IF buy THEN @ - FillsValue(done.fills)
                    ELSE @ + FillsValue(done.fills)]
          /\ order_depths' =
                IF buy THEN [order_depths EXCEPT ![symbol].sell_orders = done.book]
                ELSE IF sell THEN [order_depths EXCEPT ![symbol].buy_orders = done.book]
                ELSE order_depths
          /\ orders_by_symbol' =
                [orders_by_symbol EXCEPT ![product][j].quantity = done.quantity]
          /\ i' = next[1]
          /\ j' = next[2]
          /\ pc' = IF next[1] > Len(tradable_products) THEN "account" ELSE "match"
    /\ UNCHANGED <<merge_vars, main_vars, session, prices, tradable_products, non_tradable_products, t, state, result>>

\* --------------------------------------------------------------- accounting

\* Mutant of ProfitLoss: the open position is not valued.
ProfitLossRealizedOnly(product, price) == seashells_by_product[product]

\* Mutant of ProfitLoss: the open position is valued at the best level the
\* book still holds after matching, at nothing when the side is empty.
ProfitLossAtBook(product, price) ==
    LET bids == DOMAIN order_depths[product].buy_orders
        asks == DOMAIN order_depths[product].sell_orders
    IN IF own_positions[product] < 0 /\ asks /= {}
       THEN seashells_by_product[product]
            + own_positions[product] * (CHOOSE x \in asks : \A y \in asks : x <= y)
       ELSE IF own_positions[product] > 0 /\ bids /= {}
       THEN seashells_by_product[product]
            + own_positions[product] * (CHOOSE x \in bids : \A y \in bids : x >= y)
       ELSE seashells_by_product[product]

\* seashells_by_product[product] plus the open position at the row's first
\* bid (long) or first ask (short).
ProfitLoss(product, price) ==
    IF own_positions[product] < 0
    THEN seashells_by_product[product] + own_positions[product] * price.ask_prices[1]
    ELSE IF own_positions[product] > 0
    THEN seashells_by_product[product] + own_positions[product] * price.bid_prices[1]
    ELSE seashells_by_product[product]

\* price.xs[k] if len(xs) > k else ""
Column(xs, k) == IF Len(xs) >= k THEN xs[k] ELSE ""

ActivityLogRow(columns) == [columns |-> columns]

TradableColumns(ts, product, price) ==
    <<0, ts, product,
      Column(price.bid_prices, 1), Column(price.bid_volumes, 1),
      Column(price.bid_prices, 2), Column(price.bid_volumes, 2),
      Column(price.bid_prices, 3), Column(price.bid_volumes, 3),
      Column(price.ask_prices, 1), Column(price.ask_volumes, 1),
      Column(price.ask_prices, 2), Column(price.ask_volumes, 2),
      Column(price.ask_prices, 3), Column(price.ask_volumes, 3),
      price.mid_price, ProfitLoss(product, price)>>

NonTradableColumns(ts, product, price) ==
    <<0, ts, product>> \o [k \in 1..12 |-> ""] \o <<price.mid_price, 0>>

\* price.ask_prices[0] or price.bid_prices[0] of an empty list: IndexError
ProfitLossRaises(product, price) ==
    \/ own_positions[product] < 0 /\ Len(price.ask_prices) = 0
    \/ own_positions[product] > 0 /\ Len(price.bid_prices) = 0

\* The activity rows of the tradable products from index k on, up to the
\* first one whose P&L raises.
RECURSIVE TradableRows(_, _)
TradableRows(ts, k) ==
    IF k > Len(tradable_products) THEN <<>>
    ELSE LET product == tradable_products[k]
             price == PricesByTimestamp(prices)[ts][product]
         IN IF ProfitLossRaises(product, price) THEN <<>>
            ELSE <<ActivityLogRow(TradableColumns(ts, product, price))>>
                 \o TradableRows(ts, k + 1)

NonTradableRows(ts) ==
    [k \in DOMAIN non_tradable_products |->
        ActivityLogRow(NonTradableColumns(ts, non_tradable_products[k],
            PricesByTimestamp(prices)[ts][non_tradable_products[k]]))]

AccountRaises ==
    \E k \in DOMAIN tradable_products :
        ProfitLossRaises(tradable_products[k],
                         PricesByTimestamp(prices)[timestamp][tradable_products[k]])

\* Mutant of CarryLedger: the ledger is created anew inside the loop.
ResetLedger ==
    /\ own_positions' = [p \in DOMAIN own_positions |-> 0]
    /\ seashells_by_product' = [p \in DOMAIN seashells_by_product |-> 0]

\* own_positions and seashells_by_product are created before the loop over
\* the timestamps and nothing but matching writes them.
CarryLedger == UNCHANGED <<own_positions, seashells_by_product>>

\* The two accounting loops of a timestamp; the for loop then moves on.
Account ==
    /\ pc = "account"
    /\ \/ /\ ~AccountRaises
          /\ result' = [result EXCEPT !.activity_logs =
                           @ \o TradableRows(timestamp, 1) \o NonTradableRows(timestamp)]
          /\ pc' = "call"
          /\ t' = t + 1
          /\ orders_by_symbol' = EmptyDict
          /\ i' = 0
          /\ j' = 0
       \/ /\ AccountRaises
          /\ result' = [result EXCEPT !.activity_logs = @ \o TradableRows(timestamp, 1)]
          /\ pc' = "aborted"
          /\ UNCHANGED <<t, orders_by_symbol, i, j>>
    /\ CarryLedger
    /\ UNCHANGED <<merge_vars, main_vars, session, prices, tradable_products, non_tradable_products,
                   own_trades, order_depths, state>>

\* After the last timestamp: the totals are printed and the result returned.
Return ==
    /\ pc = "call"
    /\ t > Len(Timestamps)
    /\ Len(result.activity_logs) > 0
    /\ pc' = "done"
    /\ UNCHANGED <<merge_vars, main_vars, session, prices, tradable_products, non_tradable_products, t, own_positions,
                   own_trades, seashells_by_product, order_depths, state,
                   orders_by_symbol, result, i, j>>

\* main's list comprehension: run_backtest is called for the next day of
\* the sorted list `days`, with a new trader and locals of its own.  The
\* DayResult returned is kept in main's list, which is left out here.
NextSession ==
    /\ pc = "done"
    /\ session < MaxSessions
    /\ session' = session + 1
    /\ prices' \in {d \in Days : DayOf(d) > DayOf(prices)}
    /\ pc' = "call"
    /\ t' = 1
    /\ own_positions' = [p \in TradableProducts(prices') |-> 0]
    /\ own_trades' = EmptyDict
    /\ seashells_by_product' = [p \in TradableProducts(prices') |-> 0]
    /\ order_depths' = EmptyDict
    /\ state' = NoState
    /\ orders_by_symbol' = EmptyDict
    /\ result' = DayResult(1, DayOf(prices'), <<>>, <<>>, <<>>)
    /\ i' = 0
    /\ j' = 0
    /\ UNCHANGED <<merge_vars, main_vars, tradable_products, non_tradable_products>>

Next ==
    \/ CallTrader
    \/ TraderRaises
    \/ ValidateProduct
    \/ MatchOrder
    \/ Account
    \/ Return
    \/ NextSession

Spec == Init /\ [][Next]_vars

\* The interpreter keeps executing: a step that can be taken is taken.
SpecLive == Spec /\ WF_vars(Next)

\* ------------------------------------------------------------ merge_results

\* The gap merge_results leaves after a's last timestamp.
TimestampGap == 100

\* Number of timestamps of the longest DayResult given to merge_results.
MaxMergeTimestamps == 2

IsPrefix(p, d) == Len(p) <= Len(d) /\ SubSeq(d, 1, Len(p)) = p

\* new_data.replace(current, replacement) on one atom: the pattern
\* "key":<current> matches wherever the atom's digits start with <current>.
ReplaceMarker(atom, key, current, replacement) ==
    IF atom.key = key /\ IsPrefix(current, atom.digits)
    THEN Atom(key, replacement \o SubSeq(atom.digits, Len(current) + 1, Len(atom.digits)))
    ELSE atom

\* Mutant of SandboxWithOffset: the row is appended as it is.
SandboxWithOffsetKept(row, timestamp_offset) == row

\* SandboxLogRow.with_offset
SandboxWithOffset(row, timestamp_offset) ==
    LET new_timestamp == row.timestamp + timestamp_offset
        current == Digits(row.timestamp)
        replacement == Digits(new_timestamp)
        new_data == [k \in DOMAIN row.data |->
                        ReplaceMarker(ReplaceMarker(row.data[k], "timestamp",
                                                    current, replacement),
                                      "t", current, replacement)]
    IN SandboxLogRow(new_timestamp, new_data)

\* SubmissionLogRow.with_offset
SubmissionWithOffset(row, new_timestamp) == SubmissionLogRow(new_timestamp, row.data)

\* Mutant of ActivityWithOffset: the profit and loss column is left alone.
ActivityWithOffsetTimestampOnly(row, timestamp_offset, profit_loss_offset) ==
    ActivityLogRow([row.columns EXCEPT ![2] = @ + timestamp_offset])

\* ActivityLogRow.with_offset
ActivityWithOffset(row, timestamp_offset, profit_loss_offset) ==
    ActivityLogRow([row.columns EXCEPT ![2] = @ + timestamp_offset,
                                       ![17] = @ + profit_loss_offset])

\* The loop over reversed(a.activity_logs) from index k down: the rows of
\* a's last timestamp set profit_loss_offsets[product].
RECURSIVE ProfitLossOffsets(_, _, _, _, _)
ProfitLossOffsets(logs, k, a_last_timestamp, flag, offsets) ==
    IF k = 0 THEN offsets
    ELSE IF logs[k].columns[2] /= a_last_timestamp THEN offsets
    ELSE ProfitLossOffsets(logs, k - 1, a_last_timestamp, flag,
             Put(offsets, logs[k].columns[3], IF flag THEN logs[k].columns[17] ELSE 0))

MergeResultsOf(x, y, flag) ==
    LET a_last_timestamp == x.sandbox_logs[Len(x.sandbox_logs)].timestamp
        timestamp_offset == a_last_timestamp + TimestampGap
        profit_loss_offsets ==
            ProfitLossOffsets(x.activity_logs, Len(x.activity_logs),
                              a_last_timestamp, flag, EmptyDict)
    IN DayResult(x.round, x.day,
           x.sandbox_logs \o
               [k \in DOMAIN y.sandbox_logs |->
                   SandboxWithOffset(y.sandbox_logs[k], timestamp_offset)],
           x.submission_logs \o
               [k \in DOMAIN y.submission_logs |->
                   SubmissionWithOffset(y.submission_logs[k], timestamp_offset)],
           x.activity_logs \o
               [k \in DOMAIN y.activity_logs |->
                   ActivityWithOffset(y.activity_logs[k], timestamp_offset,
                       Get(profit_loss_offsets, y.activity_logs[k].columns[3], 0))])

\* What run_backtest may have printed into the sandbox row of timestamp ts:
\* nothing, or the state with its timestamp markers, another number and,
\* after the first timestamp, the timestamp of an own trade filled at the
\* timestamp before (the state is dumped with its own_trades).
SandboxTexts(ts) ==
    { <<>>,
      <<Atom("timestamp", Digits(ts)), Atom("t", Digits(ts)), Atom("price", <<1, 2>>)>>
      \o (IF ts > 0 THEN <<Atom("timestamp", Digits(ts - 100))>> ELSE <<>>) }

\* The activity rows run_backtest writes at the k-th timestamp for a tradable
\* PEARLS with P&L pl and the observation DOLPHIN_SIGHTINGS.
SessionActivityRows(k, pl) ==
    << ActivityLogRow(<<0, TimestampOf(k), "PEARLS", 10, 5, "", "", "", "",
                        12, 5, "", "", "", "", 22, pl>>),
       ActivityLogRow(<<0, TimestampOf(k), "DOLPHIN_SIGHTINGS">>
                      \o [m \in 1..12 |-> ""] \o <<61, 0>>) >>

RECURSIVE SessionActivityLogs(_, _)
SessionActivityLogs(n, pls) ==
    IF n = 0 THEN <<>>
    ELSE SessionActivityLogs(n - 1, pls) \o SessionActivityRows(n, pls[n])

RECURSIVE SessionSubmissionLogs(_, _)
SessionSubmissionLogs(n, rejected) ==
    IF n = 0 THEN <<>>
    ELSE SessionSubmissionLogs(n - 1, rejected) \o
         (IF n \in rejected
          THEN <<SubmissionLogRow(TimestampOf(n), RejectionText("PEARLS"))>>
          ELSE <<>>)

\* The DayResults of sessions of n timestamps, as run_backtest returns them:
\* one sandbox row per timestamp (of a trader that prints at every call or
\* at none), a rejection row for some timestamps, two activity rows per
\* timestamp.
SessionResults(day, n) ==
    { DayResult(1, day,
                [k \in 1..n |->
                    SandboxLogRow(TimestampOf(k),
                        CHOOSE text \in SandboxTexts(TimestampOf(k)) :
                            (text /= <<>>) = prints)],
                SessionSubmissionLogs(n, rejected),
                SessionActivityLogs(n, pls)) :
        prints \in BOOLEAN,
        rejected \in SUBSET (1..n),
        pls \in [1..n -> {-6, 6}] }

DayResults(day) == UNION { SessionResults(day, n) : n \in 1..MaxMergeTimestamps }

\* The lists `results` main hands to reduce: the DayResults of two days, or
\* of three days, the first and the third a session of one timestamp.
ResultLists ==
    { <<x, y>> : x \in DayResults(0), y \in DayResults(1) }
    \cup { <<x, y, z>> : x \in SessionResults(0, 1), y \in DayResults(1),
                          z \in SessionResults(2, 1) }

InitMerge ==
    /\ prices = {}
    /\ tradable_products = <<>>
    /\ non_tradable_products = <<>>
    /\ pc = "merge"
    /\ t = 1
    /\ own_positions = EmptyDict
    /\ own_trades = EmptyDict
    /\ seashells_by_product = EmptyDict
    /\ order_depths = EmptyDict
    /\ state = NoState
    /\ orders_by_symbol = EmptyDict
    /\ result = NoResult
    /\ i = 0
    /\ j = 0
    /\ session = 1
    /\ results \in ResultLists
    /\ a = results[1]
    /\ b = results[2]
    /\ rest = SubSeq(results, 3, Len(results))
    /\ merge_profit_loss \in BOOLEAN
    /\ merged = NoResult
    /\ args = <<>>
    /\ days = <<>>
    /\ traders = <<>>

\* Mutant of InputsAfterMerge: the rows of b are appended to a's own lists.
InputsExtendedInPlace(x, y, flag) == <<MergeResultsOf(x, y, flag), y>>

\* The two arguments as merge_results leaves them: it works on the copies
\* a.sandbox_logs[:], a.submission_logs[:] and a.activity_logs[:], and
\* with_offset builds a new row (ActivityLogRow from self.columns[:]), so
\* no list and no row of a or b is written.
InputsAfterMerge(x, y, flag) == <<x, y>>

\* merge_results(a, b, merge_profit_loss).  b is the element of `results`
\* reduce has come to, and in reduce's first call a is results[0]: what
\* the call does to its arguments, it does to these elements.
MergeResults ==
    /\ pc = "merge"
    /\ Len(a.sandbox_logs) > 0
    /\ merged' = MergeResultsOf(a, b, merge_profit_loss)
    /\ LET after == InputsAfterMerge(a, b, merge_profit_loss)
           at == Len(results) - Len(rest)
       IN /\ a' = after[1]
          /\ b' = after[2]
          /\ results' = [k \in DOMAIN results |->
                            IF k = at THEN after[2]
                            ELSE IF k = 1 /\ at = 2 THEN after[1]
                            ELSE results[k]]
    /\ pc' = "merged"
    /\ UNCHANGED <<session_vars, main_vars, session, merge_profit_loss, rest>>

\* reduce: the value returned becomes the first argument of the next call,
\* the next element of `results` the second.
ReduceNext ==
    /\ pc = "merged"
    /\ rest /= <<>>
    /\ a' = merged
    /\ b' = Head(rest)
    /\ rest' = Tail(rest)
    /\ merged' = NoResult
    /\ pc' = "merge"
    /\ UNCHANGED <<session_vars, main_vars, session, merge_profit_loss, results>>

NextMerge == MergeResults \/ ReduceNext

SpecMerge == InitMerge /\ [][NextMerge]_vars

\* ------------------------------------------------------------------- main

\* Number of day arguments on the command line.
MaxArgs == 3

\* The <<round, day>> pairs the arguments may name.
DayPairs == { <<1, 0>>, <<1, 1>>, <<2, 0>> }

\* args.days: one or more arguments, in any order, repeats allowed.
ArgLists == UNION { [1..n -> DayPairs] : n \in 1..MaxArgs }

\* The order of Python's tuples (round, day).
PairLess(x, y) == x[1] < y[1] \/ (x[1] = y[1] /\ x[2] < y[2])

\* sorted(days) of the set `days`
RECURSIVE SortedPairs(_)
SortedPairs(S) ==
    IF S = {} THEN <<>>
    ELSE LET first == CHOOSE x \in S : \A y \in S \ {x} : PairLess(x, y)
         IN <<first>> \o SortedPairs(S \ {first})

InitMain ==
    /\ prices = {}
    /\ tradable_products = <<>>
    /\ non_tradable_products = <<>>
    /\ pc = "args"
    /\ t = 1
    /\ own_positions = EmptyDict
    /\ own_trades = EmptyDict
    /\ seashells_by_product = EmptyDict
    /\ order_depths = EmptyDict
    /\ state = NoState
    /\ orders_by_symbol = EmptyDict
    /\ result = NoResult
    /\ i = 0
    /\ j = 0
    /\ session = 1
    /\ results = <<>>
    /\ a = NoResult
    /\ b = NoResult
    /\ rest = <<>>
    /\ merge_profit_loss \in BOOLEAN
    /\ merged = NoResult
    /\ args \in ArgLists
    /\ days = <<>>
    /\ traders = <<>>

\* days = set(); days.add((round, day)) for every argument; sorted(days)
SortDays ==
    /\ pc = "args"
    /\ days' = SortedPairs(Range(args))
    /\ pc' = "main"
    /\ UNCHANGED <<session_vars, merge_vars, session, args, traders>>

\* Mutant of NewTrader: the instance made for the first session is used
\* for the later ones.
SharedTrader == IF traders = <<>> THEN Len(traders) + 1 ELSE traders[1]

\* trader_cls(): an instance of its own, numbered in order of creation.
NewTrader == Len(traders) + 1

\* What run_backtest may return for the k-th entry of `days`: the
\* DayResult of a session of one timestamp.
SessionChoices(k) ==
    { [r EXCEPT !.round = days[k][1]] : r \in SessionResults(days[k][2], 1) }

\* One element of the list comprehension: run_backtest(trader_cls(), round,
\* day) for the next entry of `days`, which returns a DayResult or raises.
RunBacktest ==
    /\ pc = "main"
    /\ session <= Len(days)
    /\ traders' = Append(traders, NewTrader)
    /\ \/ /\ \E r \in SessionChoices(session) : results' = Append(results, r)
          /\ session' = session + 1
          /\ pc' = pc
       \/ /\ pc' = "aborted"
          /\ UNCHANGED <<results, session>>
    /\ UNCHANGED <<session_vars, a, b, merge_profit_loss, merged, rest, args, days>>

\* reduce(...) over the complete list: its first two elements go to the
\* first merge_results call; a list of one element is returned as it is.
ReduceFirst ==
    /\ pc = "main"
    /\ session > Len(days)
    /\ IF Len(results) = 1
       THEN /\ merged' = results[1]
            /\ pc' = "merged"
            /\ UNCHANGED <<a, b, rest>>
       ELSE /\ a' = results[1]
            /\ b' = results[2]
            /\ rest' = SubSeq(results, 3, Len(results))
            /\ pc' = "merge"
            /\ UNCHANGED merged
    /\ UNCHANGED <<session_vars, main_vars, session, merge_profit_loss, results>>

NextMain ==
    \/ SortDays
    \/ RunBacktest
    \/ ReduceFirst
    \/ MergeResults
    \/ ReduceNext

SpecMain == InitMain /\ [][NextMain]_vars

\* ------------------------------------------- tradable / non-tradable products

\* Number of timestamps of the price files the products are read from.
MaxQuoteTimestamps == 2

\* <<bids, asks>> a price row may quote: nothing, one side only, both sides.
QuoteShapes ==
    { <<bids, asks>> : bids \in {<<>>, << <<10, 5>> >>},
                       asks \in {<<>>, << <<12, 5>> >>} }

\* data.prices of the price files of two products: every product has a row
\* at every timestamp, quoting any of the shapes.
PriceFiles ==
    { { PriceRow(0, TimestampOf(k), p, f[<<k, p>>][1], f[<<k, p>>][2], 22) :
            k \in 1..MaxQuoteTimestamps, p \in {"PEARLS", "BANANAS"} } :
        f \in [(1..MaxQuoteTimestamps) \X {"PEARLS", "BANANAS"} -> QuoteShapes] }

InitPartition ==
    /\ prices \in PriceFiles
    /\ tradable_products = <<>>
    /\ non_tradable_products = <<>>
    /\ pc = "read"
    /\ t = 1
    /\ own_positions = EmptyDict
    /\ own_trades = EmptyDict
    /\ seashells_by_product = EmptyDict
    /\ order_depths = EmptyDict
    /\ state = NoState
    /\ orders_by_symbol = EmptyDict
    /\ result = DayResult(1, 0, <<>>, <<>>, <<>>)
    /\ i = 0
    /\ j = 0
    /\ a = NoResult
    /\ b = NoResult
    /\ merge_profit_loss = FALSE
    /\ merged = NoResult
    /\ session = 1
    /\ results = <<>>
    /\ rest = <<>>
    /\ args = <<>>
    /\ days = <<>>
    /\ traders = <<>>

\* The two set comprehensions over data.prices.
Partition ==
    /\ pc = "read"
    /\ tradable_products' \in IterationOrders(TradableProducts(prices))
    /\ non_tradable_products' \in IterationOrders(NonTradableProducts(prices))
    /\ own_positions' = [p \in TradableProducts(prices) |-> 0]
    /\ seashells_by_product' = [p \in TradableProducts(prices) |-> 0]
    /\ pc' = "call"
    /\ UNCHANGED <<merge_vars, main_vars, session, prices, t, own_trades, order_depths,
                   state, orders_by_symbol, result, i, j>>

\* run_backtest after the two comprehensions: the loop over the timestamps.
NextBacktest ==
    \/ CallTrader
    \/ TraderRaises
    \/ ValidateProduct
    \/ MatchOrder
    \/ Account
    \/ Return

NextPartition == Partition \/ NextBacktest

SpecPartition == InitPartition /\ [][NextPartition]_vars

\* ------------------------------------------------- the text of a price line

\* The text of a number is its sign and its decimal digits, and for a float
\* the digit after the point as well.  A blank field has no digits.
Blank == [sign |-> "", digits |-> <<>>]

\* str(n) of an int
StrInt(n) == [sign |-> IF n < 0 THEN "-" ELSE "", digits |-> Digits(Abs(n))]

\* str(x) of a float given in half units: "k.0" or "k.5"
StrFloat(x2) ==
    [sign |-> IF x2 < 0 THEN "-" ELSE "",
     digits |-> Digits(Abs(x2) \div 2),
     frac |-> <<IF Abs(x2) % 2 = 1 THEN 5 ELSE 0>>]

\* The number a sequence of decimal digits reads.
RECURSIVE Value(_)
Value(digits) ==
    IF digits = <<>> THEN 0
    ELSE 10 * Value(SubSeq(digits, 1, Len(digits) - 1)) + digits[Len(digits)]

\* int(text)
ParseInt(text) == (IF text.sign = "-" THEN -1 ELSE 1) * Value(text.digits)

\* float(text) in half units, for a text "k.0" or "k.5"
ParseFloat(text) ==
    (IF text.sign = "-" THEN -1 ELSE 1)
    * (2 * Value(text.digits) + (IF text.frac = <<5>> THEN 1 ELSE 0))

\* get_column_values: the values at the indices, up to the first blank one.
RECURSIVE get_column_values(_, _)
get_column_values(columns, indices) ==
    IF indices = <<>> THEN <<>>
    ELSE IF columns[Head(indices)] = Blank THEN <<>>
    ELSE <<ParseInt(columns[Head(indices)])>>
         \o get_column_values(columns, Tail(indices))

\* The PriceRow read_day_data builds from the 17 columns of a line (column
\* k of the code is columns[k + 1] here).
ParsePriceLine(columns) ==
    [day |-> ParseInt(columns[1]),
     timestamp |-> ParseInt(columns[2]),
     product |-> columns[3],
     bid_prices |-> get_column_values(columns, <<4, 6, 8>>),
     bid_volumes |-> get_column_values(columns, <<5, 7, 9>>),
     ask_prices |-> get_column_values(columns, <<10, 12, 14>>),
     ask_volumes |-> get_column_values(columns, <<11, 13, 15>>),
     mid_price |-> ParseFloat(columns[16]),
     profit_loss |-> ParseFloat(columns[17]) \div 2]

\* The text of level k of a side of the book: price and volume, or blanks.
LevelText(levels, k) ==
    IF k <= Len(levels) THEN <<StrInt(levels[k][1]), StrInt(levels[k][2])>>
    ELSE <<Blank, Blank>>

\* The lines of the price file of day k after the header, split at ";".
PriceLines(k) ==
    UNION { { <<StrInt(k), StrInt(TimestampOf(n)), q[1]>>
              \o LevelText(q[2], 1) \o LevelText(q[2], 2) \o LevelText(q[2], 3)
              \o LevelText(q[3], 1) \o LevelText(q[3], 2) \o LevelText(q[3], 3)
              \o <<StrFloat(q[4]), StrFloat(0)>> :
                q \in Snapshots[((n - 1 + k) % Len(Snapshots)) + 1] } :
            n \in 1..MaxTimestamps }

\* ActivityLogRow.__str__ split at ";" again, for a row without a blank
\* column: the str of each column, the last two being floats.
ActivityLogRowStr(row) ==
    [k \in 1..17 |->
        IF k = 3 THEN row.columns[k]
        ELSE IF k = 16 THEN StrFloat(row.columns[k])
        ELSE IF k = 17 THEN StrFloat(2 * row.columns[k])
        ELSE StrInt(row.columns[k])]

\* ================================================================== claims

\* The quantities of a batch, in order.
Quantities(orders) == [k \in DOMAIN orders |-> orders[k].quantity]

\* Sum of f[x] over the finite set S.
RECURSIVE SumOver(_, _)
SumOver(S, f) ==
    IF S = {} THEN 0
    ELSE LET x == CHOOSE y \in S : TRUE IN f[x] + SumOver(S \ {x}, f)

\* Requested buy volume of a batch: the positive quantities, summed.
RequestedBuy(orders) ==
    SumOver({k \in DOMAIN orders : orders[k].quantity > 0}, Quantities(orders))

\* Requested sell volume of a batch: the negative quantities, summed, as a
\* positive number.
RequestedSell(orders) ==
    -SumOver({k \in DOMAIN orders : orders[k].quantity < 0}, Quantities(orders))

\* The submission log `logs` holds a rejection of product p at timestamp ts.
RejectedIn(logs, p, ts) ==
    \E k \in DOMAIN logs : logs[k].timestamp = ts /\ logs[k].data[2] = p

RejectedAt(p, ts) == RejectedIn(result.submission_logs, p, ts)

WithinLimit(p) == -LIMITS[p] <= own_positions[p] /\ own_positions[p] <= LIMITS[p]

\* C1: after the matching phase of every timestamp, every tradable
\* product's position lies within [-LIMITS[p], LIMITS[p]], whatever mapping
\* the trader returned.
C1_PositionWithinLimits ==
    pc = "account" => \A p \in Range(tradable_products) : WithinLimit(p)

\* C2: the guard rejects the batch returned for p exactly when position +
\* requested buys > limit or position - requested sells < -limit; a rejected
\* batch is dropped whole and logged, an accepted one is left as returned;
\* matching then takes every order of the batches left, in order, and none
\* of a rejected batch.
C2_GuardStep ==
    (pc = "validate" /\ tradable_products[i] \in DOMAIN orders_by_symbol) =>
        LET p == tradable_products[i]
            orders == orders_by_symbol[p]
            breach == \/ own_positions[p] + RequestedBuy(orders) > LIMITS[p]
                      \/ own_positions[p] - RequestedSell(orders) < -LIMITS[p]
        IN /\ pc' /= "aborted"
           /\ breach =>
                /\ p \notin DOMAIN orders_by_symbol'
                /\ \A q \in DOMAIN orders_by_symbol' :
                      q \in DOMAIN orders_by_symbol
                      /\ orders_by_symbol'[q] = orders_by_symbol[q]
                /\ DOMAIN orders_by_symbol' = (DOMAIN orders_by_symbol) \ {p}
                /\ Len(result'.submission_logs) = Len(result.submission_logs) + 1
                /\ RejectedIn(result'.submission_logs, p, timestamp)
                /\ SubSeq(result'.submission_logs, 1, Len(result.submission_logs))
                      = result.submission_logs
           /\ ~breach =>
                /\ orders_by_symbol' = orders_by_symbol
                /\ result' = result

\* No batch before index k of tradable_products holds an order.
NoOrderBefore(obs, k) ==
    \A m \in 1..(k - 1) : Len(Get(obs, tradable_products[m], <<>>)) = 0

\* No batch after index k of tradable_products holds an order.
NoOrderAfter(obs, k) ==
    \A m \in (k + 1)..Len(tradable_products) :
        Len(Get(obs, tradable_products[m], <<>>)) = 0

C2_MatchesWhatIsLeft ==
    /\ (pc = "validate" /\ pc' = "match") =>
          /\ j' = 1
          /\ NoOrderBefore(orders_by_symbol', i')
          /\ Len(orders_by_symbol'[tradable_products[i']]) >= 1
    /\ (pc = "validate" /\ pc' = "account") =>
          NoOrderAfter(orders_by_symbol', 0)
    /\ pc = "match" =>
          /\ ~RejectedAt(tradable_products[i], timestamp)
          /\ j <= Len(orders_by_symbol[tradable_products[i]])
          /\ DOMAIN orders_by_symbol' = DOMAIN orders_by_symbol
          /\ \A q \in DOMAIN orders_by_symbol :
                Len(orders_by_symbol'[q]) = Len(orders_by_symbol[q])
          /\ pc' = "match" =>
                \/ i' = i /\ j' = j + 1
                \/ /\ j = Len(orders_by_symbol[tradable_products[i]])
                   /\ i' > i
                   /\ j' = 1
                   /\ \A m \in (i + 1)..(i' - 1) :
                         Len(Get(orders_by_symbol, tradable_products[m], <<>>)) = 0
          /\ pc' = "account" =>
                /\ j = Len(orders_by_symbol[tradable_products[i]])
                /\ NoOrderAfter(orders_by_symbol, i)

C2_LimitGuard == [][C2_GuardStep /\ C2_MatchesWhatIsLeft]_vars

\* C2's case: at position 20 the batch returned for PEARLS has been
\* rejected and dropped from the mapping.
C2_Witness ==
    /\ pc = "validate"
    /\ i = 2
    /\ RejectedAt("PEARLS", timestamp)
    /\ "PEARLS" \notin DOMAIN orders_by_symbol
    /\ own_positions["PEARLS"] = 20
    /\ state.timestamp = 100

\* C3: once the batch of p is rejected at a timestamp, no step of that
\* timestamp's matching phase changes p's position, cash or book or records
\* an own trade of p.
C3_RejectedProductUntouched ==
    [][\A p \in Range(tradable_products) :
          (pc = "match" /\ RejectedAt(p, timestamp)) =>
              /\ own_positions'[p] = own_positions[p]
              /\ seashells_by_product'[p] = seashells_by_product[p]
              /\ order_depths'[p] = order_depths[p]
              /\ p \notin DOMAIN own_trades']_vars

Max0(n) == IF n < 0 THEN 0 ELSE n

\* The own trades of symbol s in the mapping ot.
TradesOf(ot, s) == Get(ot, s, <<>>)

\* C4: a buy order is matched only against ask levels priced <= its limit,
\* cheapest first; each level gives min(remaining, level volume); every fill
\* is one trade at the level's price with SUBMISSION as buyer; position rises
\* and cash falls by the fills; a level's volume falls by its fill and an
\* emptied level leaves the book; the total is min(q, eligible volume).
C4_BuyStep ==
    (pc = "match" /\ CurrentOrder.quantity > 0) =>
        LET order == CurrentOrder
            q == order.quantity
            sym == order.symbol
            asks == order_depths[sym].sell_orders
            E == {x \in DOMAIN asks : x <= order.price}
            vol == [x \in E |-> -asks[x]]
            below == [x \in E |-> SumOver({y \in E : y < x}, vol)]
            fill == [x \in E |-> Max0(Min2(vol[x], q - below[x]))]
            filled == {x \in E : fill[x] > 0}
            old == TradesOf(own_trades, sym)
            new == TradesOf(own_trades', sym)
            n == Len(new) - Len(old)
            asks2 == order_depths'[sym].sell_orders
        IN /\ n = Cardinality(filled)
           /\ SubSeq(new, 1, Len(old)) = old
           /\ \A k \in 1..n :
                 LET tr == new[Len(old) + k]
                 IN /\ tr.price \in filled
                    /\ tr.quantity = fill[tr.price]
                    /\ tr.buyer = "SUBMISSION"
                    /\ tr.seller = ""
                    /\ tr.symbol = sym
                    /\ tr.timestamp = timestamp
           /\ \A k \in 1..(n - 1) : new[Len(old) + k].price < new[Len(old) + k + 1].price
           /\ own_positions'[sym] = own_positions[sym] + SumOver(E, fill)
           /\ seashells_by_product'[sym] =
                 seashells_by_product[sym] - SumOver(E, [x \in E |-> x * fill[x]])
           /\ DOMAIN asks2 = {x \in DOMAIN asks : x \notin E \/ fill[x] < vol[x]}
           /\ \A x \in DOMAIN asks2 :
                 asks2[x] = IF x \in E THEN asks[x] + fill[x] ELSE asks[x]
           /\ order_depths'[sym].buy_orders = order_depths[sym].buy_orders
           /\ SumOver(E, fill) = Min2(q, SumOver(E, vol))
           /\ \A s \in (DOMAIN order_depths) \ {sym} :
                 /\ order_depths'[s] = order_depths[s]
                 /\ own_positions'[s] = own_positions[s]
                 /\ seashells_by_product'[s] = seashells_by_product[s]
                 /\ TradesOf(own_trades', s) = TradesOf(own_trades, s)

C4_BuyMatching == [][C4_BuyStep]_vars

\* C4's case, the example: book bid(10,5)/ask(12,5), buy 3 @ 12 has given one
\* fill of 3 @ 12, position 3, cash -36, ask level volume 2.
C4_Witness ==
    /\ pc = "account"
    /\ orders_by_symbol = ("BANANAS" :> <<Order("BANANAS", 12, 0)>>)
    /\ own_trades = ("BANANAS" :> <<Trade("BANANAS", 12, 3, "SUBMISSION", "", 0)>>)
    /\ own_positions["BANANAS"] = 3
    /\ seashells_by_product["BANANAS"] = -36
    /\ order_depths["BANANAS"] = [buy_orders |-> (10 :> 5), sell_orders |-> (12 :> -2)]

\* C5: a sell order fills the highest bid first, then the next highest, and
\* fills no level while a higher level priced >= its limit still has volume;
\* every fill is a trade at the level's price with SUBMISSION as seller;
\* position falls by the fills and cash rises by price * fill.
C5_SellStep ==
    (pc = "match" /\ CurrentOrder.quantity < 0) =>
        LET order == CurrentOrder
            sym == order.symbol
            bids == order_depths[sym].buy_orders
            bids2 == order_depths'[sym].buy_orders
            E == {x \in DOMAIN bids : x >= order.price}
            old == TradesOf(own_trades, sym)
            new == TradesOf(own_trades', sym)
            n == Len(new) - Len(old)
            sold == [k \in 1..n |-> new[Len(old) + k]]
        IN /\ n >= 0
           /\ SubSeq(new, 1, Len(old)) = old
           /\ \A k \in 1..n :
                 /\ sold[k].price \in E
                 /\ sold[k].quantity > 0
                 /\ sold[k].quantity <= bids[sold[k].price]
                 /\ sold[k].seller = "SUBMISSION"
                 /\ sold[k].buyer = ""
                 /\ sold[k].symbol = sym
                 /\ sold[k].timestamp = timestamp
                 /\ \A y \in E : y > sold[k].price =>
                       /\ y \notin DOMAIN bids2
                       /\ \E m \in 1..(k - 1) :
                             sold[m].price = y /\ sold[m].quantity = bids[y]
           /\ \A k \in 1..(n - 1) : sold[k].price > sold[k + 1].price
           /\ own_positions'[sym] =
                 own_positions[sym] - SumOver(1..n, [k \in 1..n |-> sold[k].quantity])
           /\ seashells_by_product'[sym] =
                 seashells_by_product[sym]
                 + SumOver(1..n, [k \in 1..n |-> sold[k].price * sold[k].quantity])
           /\ E /= {} => n >= 1
           /\ SumOver(1..n, [k \in 1..n |-> sold[k].quantity]) <= -order.quantity

C5_SellMatching == [][C5_SellStep]_vars

\* C5's case: a sell of 20 @ 9 has filled the bid at 10 (5) and then the bid
\* at 9 (15), and left the bid at 8.
C5_Witness ==
    /\ own_trades = ("PEARLS" :> <<Trade("PEARLS", 10, 5, "", "SUBMISSION", 0),
                                   Trade("PEARLS", 9, 15, "", "SUBMISSION", 0)>>)
    /\ own_positions["PEARLS"] = -20
    /\ seashells_by_product["PEARLS"] = 185
    /\ order_depths["PEARLS"].buy_orders = (9 :> 10 @@ 8 :> 5)

\* C6: a buy order priced strictly below the lowest ask, or a sell order
\* priced strictly above the highest bid, fills nothing: no trade is
\* recorded, and position, cash and every book level stay as they are.
C6_NoMatchStep ==
    pc = "match" =>
        LET order == CurrentOrder
            depth == order_depths[order.symbol]
            belowAsks == /\ order.quantity > 0
                         /\ DOMAIN depth.sell_orders /= {}
                         /\ \A x \in DOMAIN depth.sell_orders : order.price < x
            aboveBids == /\ order.quantity < 0
                         /\ DOMAIN depth.buy_orders /= {}
                         /\ \A x \in DOMAIN depth.buy_orders : order.price > x
        IN (belowAsks \/ aboveBids) =>
              UNCHANGED <<own_trades, own_positions, seashells_by_product, order_depths>>

C6_NoFillOutsideLimit == [][C6_NoMatchStep]_vars

\* C6's case: a buy of 20 @ 9 under asks from 11 up has been matched and
\* has left no trade and the whole book.
C6_Witness ==
    /\ pc = "account"
    /\ orders_by_symbol = ("PEARLS" :> <<Order("PEARLS", 9, 20)>>)
    /\ own_trades = EmptyDict
    /\ order_depths["PEARLS"].sell_orders = (11 :> -5 @@ 12 :> -25 @@ 13 :> -5)
    /\ own_positions["PEARLS"] = 0

\* The row of the price file for (ts, p).
PriceRowOf(ts, p) == CHOOSE r \in prices : r.timestamp = ts /\ r.product = p

\* Lowest quoted ask and highest quoted bid of a price row.
BestAsk(row) ==
    CHOOSE x \in Range(row.ask_prices) : \A y \in Range(row.ask_prices) : x <= y

BestBid(row) ==
    CHOOSE x \in Range(row.bid_prices) : \A y \in Range(row.bid_prices) : x >= y

\* Indices of the activity rows of (ts, p).
ActivityRowsOf(ts, p) ==
    {k \in DOMAIN result.activity_logs :
        /\ result.activity_logs[k].columns[2] = ts
        /\ result.activity_logs[k].columns[3] = p}

\* C7: after every timestamp the P&L in the activity row of a tradable
\* product is its realized cash plus position * best ask (short), plus
\* position * best bid (long), plus nothing (flat), at that timestamp's prices.
C7_MarkToMarket ==
    (pc \in {"call", "validate", "done"} /\ t > 1) =>
        \A p \in Range(tradable_products) :
            LET ts == Timestamps[t - 1]
                row == PriceRowOf(ts, p)
                position == own_positions[p]
                unrealized == IF position < 0 THEN position * BestAsk(row)
                              ELSE IF position > 0 THEN position * BestBid(row)
                              ELSE 0
            IN /\ ActivityRowsOf(ts, p) /= {}
               /\ \A k \in ActivityRowsOf(ts, p) :
                     result.activity_logs[k].columns[17] =
                         seashells_by_product[p] + unrealized

\* C7's case: 3 bought at 11, best bid 13 one timestamp later: -33 + 3 * 13.
C7_Witness ==
    /\ pc = "done"
    /\ own_positions["PEARLS"] = 3
    /\ seashells_by_product["PEARLS"] = -33
    /\ BestBid(PriceRowOf(100, "PEARLS")) = 13
    /\ \E k \in ActivityRowsOf(100, "PEARLS") : result.activity_logs[k].columns[17] = 6

\* All own trades a TradingState carries.
StateTrades(st) ==
    UNION { Range(st.own_trades[s]) : s \in DOMAIN st.own_trades }

\* Bought minus sold quantity of the own trades of symbol s in a TradingState.
NetTraded(st, s) ==
    LET trades == TradesOf(st.own_trades, s)
    IN SumOver(DOMAIN trades,
               [k \in DOMAIN trades |->
                   IF trades[k].buyer = "SUBMISSION" THEN trades[k].quantity
                   ELSE -trades[k].quantity])

\* C8: the state of a call carries exactly the own trades matched at the
\* timestamp before it (they account for the change of every position
\* between the two states), none of its own or of a later timestamp, and
\* the first state of a session carries none.
C8_CallStep ==
    (pc = "call" /\ pc' /= "call" /\ pc' /= "done") =>
        /\ state'.timestamp = timestamp
        /\ \A tr \in StateTrades(state') :
              /\ t > 1
              /\ tr.timestamp = Timestamps[t - 1]
              /\ tr.timestamp < state'.timestamp
        /\ t = 1 => state'.own_trades = EmptyDict
        /\ \A s \in Range(tradable_products) :
              Get(state'.position, s, 0) - Get(state.position, s, 0)
                  = NetTraded(state', s)
        /\ DOMAIN state'.own_trades \subseteq Range(tradable_products)

C8_OtherStep ==
    /\ (pc \notin {"call", "done"}) => state' = state
    /\ pc = "done" => state' = NoState

C8_OwnTradesNextTimestamp == [][C8_CallStep /\ C8_OtherStep]_vars

\* C8's case: the 3 @ 12 bought at timestamp 0 are in the state of
\* timestamp 100.
C8_Witness ==
    /\ pc = "validate"
    /\ state.timestamp = 100
    /\ state.own_trades = ("BANANAS" :> <<Trade("BANANAS", 12, 3, "SUBMISSION", "", 0)>>)
    /\ state.position = ("BANANAS" :> 3)

\* The book of product p holds exactly the levels of the price row.
BookIsSnapshot(depth, row) ==
    /\ DOMAIN depth.buy_orders = Range(row.bid_prices)
    /\ \A k \in DOMAIN row.bid_prices :
          depth.buy_orders[row.bid_prices[k]] = row.bid_volumes[k]
    /\ DOMAIN depth.sell_orders = Range(row.ask_prices)
    /\ \A k \in DOMAIN row.ask_prices :
          depth.sell_orders[row.ask_prices[k]] = -row.ask_volumes[k]

\* C9: the book handed to the trader and taken into matching at a timestamp
\* is the book of that timestamp's price rows alone: nothing of an earlier
\* order, filled or not, is in it.
C9_BookFromSnapshot ==
    pc = "validate" =>
        /\ DOMAIN order_depths = Range(tradable_products)
        /\ state.order_depths = order_depths
        /\ \A p \in Range(tradable_products) :
              BookIsSnapshot(order_depths[p], PriceRowOf(timestamp, p))

\* C9's case: a buy of 20 @ 12 filled 5 at timestamp 0 and left 15 unfilled;
\* the book of timestamp 100 is in front of the guard.
C9_Witness ==
    /\ pc = "validate"
    /\ state.timestamp = 100
    /\ state.own_trades = ("BANANAS" :> <<Trade("BANANAS", 12, 5, "SUBMISSION", "", 0)>>)
    /\ order_depths["BANANAS"].sell_orders = (11 :> -5 @@ 12 :> -25)

\* The offset merge_results adds: a's final timestamp + 100.
MergeOffset == a.sandbox_logs[Len(a.sandbox_logs)].timestamp + 100

\* C10: in the merged result every row of b, in the sandbox, the submission
\* and the activity log, has its own timestamp plus the offset.
C10_EveryRowShifted ==
    pc = "merged" =>
        /\ \A k \in DOMAIN b.sandbox_logs :
              merged.sandbox_logs[Len(a.sandbox_logs) + k].timestamp
                  = b.sandbox_logs[k].timestamp + MergeOffset
        /\ \A k \in DOMAIN b.submission_logs :
              merged.submission_logs[Len(a.submission_logs) + k].timestamp
                  = b.submission_logs[k].timestamp + MergeOffset
        /\ \A k \in DOMAIN b.activity_logs :
              merged.activity_logs[Len(a.activity_logs) + k].columns[2]
                  = b.activity_logs[k].columns[2] + MergeOffset

\* The profit and loss of product p in the activity rows of x's final
\* timestamp.
FinalProfitLoss(x, p) ==
    LET logs == x.activity_logs
        last == logs[Len(logs)].columns[2]
        k == CHOOSE n \in DOMAIN logs : logs[n].columns[2] = last /\ logs[n].columns[3] = p
    IN logs[k].columns[17]

\* The rows of y, as they stand at the end of the activity log of m.
TailRows(m, y) ==
    SubSeq(m.activity_logs, Len(m.activity_logs) - Len(y.activity_logs) + 1,
           Len(m.activity_logs))

\* C11: merge_results(a, b, flag) leaves the profit and loss of every
\* activity row of b as it was when the flag is off, and adds to it the
\* profit and loss of the row's product at a's final timestamp when the flag
\* is on; after folding three sessions the rows of the third carry the final
\* profit and loss of the first and of the second on top of their own.
C11_MergeProfitLoss ==
    pc = "merged" =>
        /\ \A k \in DOMAIN b.activity_logs :
              LET row == b.activity_logs[k]
              IN TailRows(merged, b)[k].columns[17] =
                    row.columns[17] +
                    (IF merge_profit_loss THEN FinalProfitLoss(a, row.columns[3]) ELSE 0)
        /\ (Len(results) = 3 /\ rest = <<>> /\ b = results[3]) =>
              \A k \in DOMAIN b.activity_logs :
                  LET row == b.activity_logs[k]
                  IN TailRows(merged, b)[k].columns[17] =
                        row.columns[17] +
                        (IF merge_profit_loss
                         THEN FinalProfitLoss(results[1], row.columns[3])
                              + FinalProfitLoss(results[2], row.columns[3])
                         ELSE 0)

\* Three sessions have been folded with the flag on; the first two ended
\* with a profit of 6 on PEARLS each, the third with a loss of 6, and its
\* PEARLS row now reads 6.
C11_Witness ==
    /\ pc = "merged"
    /\ merge_profit_loss
    /\ Len(results) = 3
    /\ rest = <<>>
    /\ b = results[3]
    /\ FinalProfitLoss(results[1], "PEARLS") = 6
    /\ FinalProfitLoss(results[2], "PEARLS") = 6
    /\ FinalProfitLoss(b, "PEARLS") = -6
    /\ FinalProfitLoss(merged, "PEARLS") = 6

\* merge_results(A, merge_results(B, C)) for the three results of the list.
RightNested ==
    MergeResultsOf(results[1],
                   MergeResultsOf(results[2], results[3], merge_profit_loss),
                   merge_profit_loss)

\* C12: for three results A, B, C in chronological order and either value
\* of the flag, merge_results(merge_results(A, B), C), which the fold has
\* computed, and merge_results(A, merge_results(B, C)) have equal sandbox,
\* submission and activity logs.
C12_MergeAssociative ==
    (pc = "merged" /\ Len(results) = 3 /\ rest = <<>> /\ b = results[3]) =>
        /\ merged.sandbox_logs = RightNested.sandbox_logs
        /\ merged.submission_logs = RightNested.submission_logs
        /\ merged.activity_logs = RightNested.activity_logs

\* Position and realized cash of every product are zero.
LedgerIsZero(positions, seashells) ==
    /\ \A p \in DOMAIN positions : positions[p] = 0
    /\ \A p \in DOMAIN seashells : seashells[p] = 0

\* A session stands at its first timestamp with a ledger of zeros.
C13_StartsAtZero ==
    (pc = "call" /\ t = 1) => LedgerIsZero(own_positions, seashells_by_product)

\* Only matching writes the ledger within a session, and the call of
\* run_backtest for the next day starts from zeros and from no trades.
C13_LedgerStep ==
    /\ (pc \in {"call", "validate", "account"}) =>
          UNCHANGED <<own_positions, seashells_by_product>>
    /\ pc = "done" =>
          /\ LedgerIsZero(own_positions', seashells_by_product')
          /\ own_trades' = EmptyDict
          /\ state' = NoState

\* C13: every session starts with zero position and zero cash for every
\* product; position and cash at the start of a timestamp are those of the
\* end of the previous one; the next call of run_backtest sees nothing of
\* the ledger of the call before.
C13_LedgerPerSession == []C13_StartsAtZero /\ [][C13_LedgerStep]_vars

\* The second session of a run stands at its second timestamp holding a
\* position and cash from its first.
C13_Witness ==
    /\ session = 2
    /\ pc = "call"
    /\ t = 2
    /\ own_positions["PEARLS"] /= 0
    /\ seashells_by_product["PEARLS"] /= 0

\* A step out of the loop head: either trader.run returned and its sandbox
\* row is written before the guard starts, or it raised and nothing of the
\* session changes any more.
C14_CallStep ==
    (pc = "call" /\ t <= Len(Timestamps)) =>
        \/ /\ pc' = "validate"
           /\ Len(result'.sandbox_logs) = Len(result.sandbox_logs) + 1
        \/ /\ pc' = "aborted"
           /\ UNCHANGED <<result, own_positions, own_trades, seashells_by_product,
                          orders_by_symbol, t, session>>

\* Once the exception has left run_backtest no step follows.
C14_NoStepAfter == pc = "aborted" => UNCHANGED vars

\* C14: when the algorithm raises at timestamp T the failure propagates at
\* once: no order of T is validated or matched, no later timestamp is
\* processed, the algorithm is not called again, no result is returned.
C14_RaisePropagates == [][C14_CallStep /\ C14_NoStepAfter]_vars

\* The algorithm raised at the second timestamp, after trades at the first.
C14_Witness ==
    /\ pc = "aborted"
    /\ i = 0
    /\ t = 2
    /\ state.timestamp = TimestampOf(2)
    /\ Len(result.sandbox_logs) = 1
    /\ own_positions["PEARLS"] /= 0

\* The session was aborted by accounting: a tradable product with a
\* position has no level on the side its valuation reads.
AbortedByData == pc = "aborted" /\ i > Len(tradable_products) /\ AccountRaises

\* C15: when a price row lacks the bid or ask level accounting needs for a
\* tradable product with a position, the session is aborted before it
\* starts: the algorithm has not been called and no log row exists.
C15_AbortBeforeStart ==
    AbortedByData =>
        /\ state = NoState
        /\ result.sandbox_logs = <<>>
        /\ result.submission_logs = <<>>
        /\ result.activity_logs = <<>>

\* Product p has a bid or an ask level in some row of the data.
Quoted(p) ==
    \E r \in prices : r.product = p /\ (Len(r.bid_prices) > 0 \/ Len(r.ask_prices) > 0)

\* C16: every product of the data is in exactly one of tradable_products
\* and non_tradable_products: in the first when it has a bid or ask level,
\* in the second when it has none.
C16_ProductsPartitioned ==
    pc /= "read" =>
        \A p \in {r.product : r \in prices} :
            /\ (p \in Range(tradable_products)) <=> Quoted(p)
            /\ (p \in Range(non_tradable_products)) <=> ~Quoted(p)

\* The activity log of a replay of `prices` in which nothing is filled, when
\* the interpreter iterates the tradable products in the order o1 and the
\* non-tradable ones in the order o2: per timestamp a row for each.
RECURSIVE QuietActivityLogs(_, _, _)
QuietActivityLogs(o1, o2, n) ==
    IF n = 0 THEN <<>>
    ELSE LET ts == Timestamps[n]
             row(p) == PricesByTimestamp(prices)[ts][p]
         IN QuietActivityLogs(o1, o2, n - 1)
            \o [k \in DOMAIN o1 |->
                  ActivityLogRow(TradableColumns(ts, o1[k], row(o1[k])))]
            \o [k \in DOMAIN o2 |->
                  ActivityLogRow(NonTradableColumns(ts, o2[k], row(o2[k])))]

\* The run is over and the algorithm, the same at every timestamp, printed
\* nothing and got nothing filled or rejected.
QuietRun ==
    /\ pc = "done"
    /\ \A k \in DOMAIN result.sandbox_logs : result.sandbox_logs[k].data = <<>>
    /\ result.submission_logs = <<>>
    /\ LedgerIsZero(own_positions, seashells_by_product)

\* C17: the result of a replay is fixed by the rows and the algorithm: a
\* run of the same rows with the same algorithm in another interpreter
\* process, which may iterate the two product sets in any other order,
\* returns the same activity rows in the same sequence.
C17_ReplayDeterministic ==
    QuietRun =>
        \A o1 \in IterationOrders(TradableProducts(prices)),
           o2 \in IterationOrders(NonTradableProducts(prices)) :
            result.activity_logs = QuietActivityLogs(o1, o2, Len(Timestamps))

\* The line quotes all three bid levels and all three ask levels.
FullLine(line) == \A k \in 4..15 : line[k] /= Blank

\* C18: a price line with all six levels, parsed by read_day_data and
\* written again as the activity row of its timestamp and product, reads
\* the same 17 fields in the same order.
C18_RoundTrip ==
    \A line \in PriceLines(DayOf(prices)) :
        FullLine(line) =>
            /\ ParsePriceLine(line) \in prices
            /\ \A k \in DOMAIN result.activity_logs :
                  LET row == result.activity_logs[k]
                  IN (row.columns[2] = ParseInt(line[2]) /\ row.columns[3] = line[3])
                        => ActivityLogRowStr(row) = line

\* Volume of the own trades of symbol p at `price` on one side ("buy": the
\* submission bought, from an ask level; "sell": it sold, into a bid level).
FilledAt(p, price, side) ==
    LET trades == TradesOf(own_trades, p)
    IN SumOver({k \in DOMAIN trades :
                   /\ trades[k].price = price
                   /\ (side = "buy") = (trades[k].buyer = "SUBMISSION")},
               [k \in DOMAIN trades |-> trades[k].quantity])

\* While the orders of a timestamp are matched and when they are through:
\* what was filled at a level plus what the book still holds there is the
\* level's volume in the snapshot, and the book holds no level of volume 0.
C19_BookAndFills ==
    pc \in {"match", "account"} =>
        \A p \in Range(tradable_products) :
            LET row == PriceRowOf(timestamp, p)
                asks == LevelDict(row.ask_prices, row.ask_volumes, 1)
                bids == LevelDict(row.bid_prices, row.bid_volumes, 1)
                book == order_depths[p]
            IN /\ \A price \in DOMAIN book.buy_orders : book.buy_orders[price] > 0
               /\ \A price \in DOMAIN book.sell_orders : book.sell_orders[price] < 0
               /\ DOMAIN book.sell_orders \subseteq DOMAIN asks
               /\ DOMAIN book.buy_orders \subseteq DOMAIN bids
               /\ \A price \in DOMAIN asks :
                     /\ FilledAt(p, price, "buy") <= asks[price]
                     /\ FilledAt(p, price, "buy") - Get(book.sell_orders, price, 0)
                           = asks[price]
               /\ \A price \in DOMAIN bids :
                     /\ FilledAt(p, price, "sell") <= bids[price]
                     /\ FilledAt(p, price, "sell") + Get(book.buy_orders, price, 0)
                           = bids[price]
               /\ \A k \in DOMAIN TradesOf(own_trades, p) :
                     LET trade == TradesOf(own_trades, p)[k]
                     IN /\ trade.quantity > 0
                        /\ trade.price \in
                              IF trade.buyer = "SUBMISSION" THEN DOMAIN asks ELSE DOMAIN bids

\* The orders of a batch are taken one after the other as listed.
C19_InListedOrder ==
    (pc = "match" /\ pc' = "match" /\ i' = i) => j' = j + 1

\* C19: the orders of a batch are matched in the order listed, each against
\* the book as the orders before it left it: the fills taken from a level
\* never add up to more than the level's volume in the snapshot, an emptied
\* level gives nothing more, and no level of the book has volume zero.
C19_BatchSharesBook == []C19_BookAndFills /\ [][C19_InListedOrder]_vars

\* Two buy orders of one PEARLS batch: the first took 3 of the 5 at 11, the
\* second the 2 left there and 1 at 12; the level 11 is gone from the book.
C19_Witness ==
    /\ pc = "account"
    /\ Len(Get(orders_by_symbol, "PEARLS", <<>>)) = 2
    /\ TradesOf(own_trades, "PEARLS") =
          << Trade("PEARLS", 11, 3, "SUBMISSION", "", timestamp),
             Trade("PEARLS", 11, 2, "SUBMISSION", "", timestamp),
             Trade("PEARLS", 12, 1, "SUBMISSION", "", timestamp) >>
    /\ order_depths["PEARLS"].sell_orders = (12 :> -24 @@ 13 :> -5)

\* The sandbox rows, one per call of the algorithm, are those of the first
\* timestamps of the data in ascending order, each once; a returned result
\* has one for every timestamp.
C20_OncePerTimestamp ==
    /\ Len(result.sandbox_logs) <= Len(Timestamps)
    /\ \A k \in DOMAIN result.sandbox_logs :
          result.sandbox_logs[k].timestamp = Timestamps[k]
    /\ \A k \in 1..(Len(Timestamps) - 1) : Timestamps[k] < Timestamps[k + 1]
    /\ pc = "done" => Len(result.sandbox_logs) = Len(Timestamps)

\* The run is over: the result was returned, or the algorithm raised.
C20_Completed == pc = "done" \/ (pc = "aborted" /\ i = 0)

\* C20: the algorithm is called once per timestamp of the data in strictly
\* ascending order, and for any data and any batches it returns the run
\* reaches completion after the last timestamp.
C20_CompletesInOrder == []C20_OncePerTimestamp /\ <>C20_Completed

\* One sandbox row per call of the algorithm, in ascending order of the
\* timestamps, whatever was printed; no (timestamp, product) pair is
\* rejected twice.
C21_Logs ==
    /\ (pc \in {"validate", "match", "account"}) => Len(result.sandbox_logs) = t
    /\ (pc \in {"call", "done"}) => Len(result.sandbox_logs) = t - 1
    /\ \A k \in DOMAIN result.sandbox_logs :
          result.sandbox_logs[k].timestamp = Timestamps[k]
    /\ \A k, l \in DOMAIN result.submission_logs :
          (/\ result.submission_logs[k].timestamp = result.submission_logs[l].timestamp
           /\ result.submission_logs[k].data[2] = result.submission_logs[l].data[2])
             => k = l

\* A step of the guard that rejects a batch: the session goes on, the
\* sandbox log and the batches under the other keys are as they were.
C21_RejectionStep ==
    (pc = "validate" /\ result'.submission_logs /= result.submission_logs) =>
        /\ pc' \in {"validate", "match", "account"}
        /\ result'.sandbox_logs = result.sandbox_logs
        /\ \A k \in DOMAIN orders_by_symbol \ {tradable_products[i]} :
              /\ k \in DOMAIN orders_by_symbol'
              /\ orders_by_symbol'[k] = orders_by_symbol[k]

\* C21: a rejected batch does not end the session: the sandbox log keeps
\* one row per timestamp in ascending order, the submission log gets one
\* row per rejected (timestamp, product), and the batches accepted at the
\* same timestamp are matched as they were returned.
C21_RejectionNotFatal == []C21_Logs /\ [][C21_RejectionStep]_vars

\* Columns 4..15 of an activity row that quotes the levels of a price row.
SnapshotLevels(price) ==
    <<Column(price.bid_prices, 1), Column(price.bid_volumes, 1),
      Column(price.bid_prices, 2), Column(price.bid_volumes, 2),
      Column(price.bid_prices, 3), Column(price.bid_volumes, 3),
      Column(price.ask_prices, 1), Column(price.ask_volumes, 1),
      Column(price.ask_prices, 2), Column(price.ask_volumes, 2),
      Column(price.ask_prices, 3), Column(price.ask_volumes, 3)>>

\* C22: once a timestamp is accounted for, the activity log holds exactly
\* one row for each product of the data at that timestamp: with the levels
\* and the mid price of the snapshot for a tradable product, with twelve
\* blank level columns, the mid price and a P&L of 0 for a non-tradable one.
C22_OneRowPerProduct ==
    (pc \in {"call", "done"} /\ t > 1) =>
        \A k \in 1..(t - 1) : \A p \in {r.product : r \in prices} :
            LET ts == Timestamps[k]
                price == PriceRowOf(ts, p)
            IN /\ Cardinality(ActivityRowsOf(ts, p)) = 1
               /\ \A n \in ActivityRowsOf(ts, p) :
                     LET columns == result.activity_logs[n].columns
                     IN /\ Len(columns) = 17
                        /\ columns[16] = price.mid_price
                        /\ p \in Range(tradable_products) =>
                              SubSeq(columns, 4, 15) = SnapshotLevels(price)
                        /\ p \in Range(non_tradable_products) =>
                              /\ SubSeq(columns, 4, 15) = [m \in 1..12 |-> ""]
                              /\ columns[17] = 0

\* The phases of a timestamp follow one another: call, guard, matching,
\* accounting.  The guard goes through tradable_products one by one and
\* looks at the positions the timestamp started with; the ledger moves in
\* matching only and the activity log in accounting only.
C23_PhaseStep ==
    /\ (pc = "call" /\ pc' = "validate") => i' = 1
    /\ (pc = "validate" /\ pc' = "validate") => i' = i + 1
    /\ (pc = "validate" /\ pc' \in {"match", "account"}) => i = Len(tradable_products)
    /\ pc = "validate" =>
          /\ pc' \in {"validate", "match", "account", "aborted"}
          /\ \A p \in DOMAIN own_positions :
                own_positions[p] = Get(state.position, p, 0)
          /\ own_positions' = own_positions
          /\ own_trades' = IF pc' \in {"match", "account"} THEN EmptyDict ELSE own_trades
    /\ pc = "match" => pc' \in {"match", "account"}
    /\ pc = "account" => pc' \in {"call", "aborted"}
    /\ (pc /= "done" /\ <<own_positions, seashells_by_product>>' /=
                          <<own_positions, seashells_by_product>>) => pc = "match"
    /\ (pc /= "done" /\ result'.activity_logs /= result.activity_logs) =>
          /\ pc = "account"
          /\ Len(result.activity_logs) < Len(result'.activity_logs)

\* C23: within a timestamp the guard has judged the batch of every
\* tradable product, against the positions held when the timestamp began,
\* before the first order is matched, and the P&L rows are written only
\* after all matching of the timestamp.
C23_PhaseOrder == [][C23_PhaseStep]_vars

\* C23's case: the batch of the second product is already rejected while
\* the first order of the first product is still to be matched.
C23_Witness ==
    /\ pc = "match"
    /\ i = 1
    /\ j = 1
    /\ Len(tradable_products) = 2
    /\ RejectedAt(tradable_products[2], timestamp)
    /\ own_trades = EmptyDict
    /\ result.activity_logs /= <<>>

\* The row of the merged sandbox log that stems from the k-th row of b.
MergedSandboxRow(k) == merged.sandbox_logs[Len(a.sandbox_logs) + k]

\* The row of the merged activity log that stems from the k-th row of b.
MergedActivityRow(k) == merged.activity_logs[Len(a.activity_logs) + k]

\* The timestamps of a log do not decrease.
NonDecreasing(timestamps) ==
    \A k \in 1..(Len(timestamps) - 1) : timestamps[k] <= timestamps[k + 1]

\* C24: merge_results(a, b) concatenates: each merged log begins with a's
\* rows as they were and goes on with b's rows in their order, changed
\* only in the timestamp, the marker atoms and the P&L column; the
\* timestamps of the merged sandbox and activity logs do not decrease and
\* b's first row is at least 100 after a's last timestamp.
C24_Concatenation ==
    pc = "merged" =>
        /\ Len(merged.sandbox_logs) = Len(a.sandbox_logs) + Len(b.sandbox_logs)
        /\ Len(merged.submission_logs) = Len(a.submission_logs) + Len(b.submission_logs)
        /\ Len(merged.activity_logs) = Len(a.activity_logs) + Len(b.activity_logs)
        /\ IsPrefix(a.sandbox_logs, merged.sandbox_logs)
        /\ IsPrefix(a.submission_logs, merged.submission_logs)
        /\ IsPrefix(a.activity_logs, merged.activity_logs)
        /\ \A k \in DOMAIN b.sandbox_logs :
              /\ Len(MergedSandboxRow(k).data) = Len(b.sandbox_logs[k].data)
              /\ \A m \in DOMAIN b.sandbox_logs[k].data :
                    /\ MergedSandboxRow(k).data[m].key = b.sandbox_logs[k].data[m].key
                    /\ b.sandbox_logs[k].data[m].key \notin {"timestamp", "t"} =>
                          MergedSandboxRow(k).data[m] = b.sandbox_logs[k].data[m]
        /\ \A k \in DOMAIN b.submission_logs :
              merged.submission_logs[Len(a.submission_logs) + k].data
                  = b.submission_logs[k].data
        /\ \A k \in DOMAIN b.activity_logs :
              /\ SubSeq(MergedActivityRow(k).columns, 3, 16)
                    = SubSeq(b.activity_logs[k].columns, 3, 16)
              /\ MergedActivityRow(k).columns[1] = b.activity_logs[k].columns[1]
              /\ Len(MergedActivityRow(k).columns) = 17
        /\ NonDecreasing([k \in DOMAIN merged.sandbox_logs |->
                             merged.sandbox_logs[k].timestamp])
        /\ NonDecreasing([k \in DOMAIN merged.activity_logs |->
                             merged.activity_logs[k].columns[2]])
        /\ MergedSandboxRow(1).timestamp >= MergeOffset
        /\ MergedActivityRow(1).columns[2] >= MergeOffset

\* C24's case: three sessions of 1, 2 and 1 timestamps are folded into one
\* log of four timestamps 0, 100, 200, 300 with printed text in every row.
C24_Witness ==
    /\ pc = "merged"
    /\ rest = <<>>
    /\ Len(results) = 3
    /\ Len(merged.sandbox_logs) = 4
    /\ \A k \in 1..4 : /\ merged.sandbox_logs[k].timestamp = (k - 1) * 100
                       /\ merged.sandbox_logs[k].data /= <<>>
    /\ Len(merged.activity_logs) = 8
    /\ merged.activity_logs[8].columns[2] = 300

\* C25: in every sandbox row of b the markers "timestamp":<n> and "t":<n>
\* are moved by the offset the row's timestamp is moved by: each marker of
\* the merged row reads its value in b plus the offset, and the atoms that
\* are no markers are as they were.
C25_MarkersRebased ==
    pc = "merged" =>
        \A k \in DOMAIN b.sandbox_logs :
            /\ MergedSandboxRow(k).timestamp = b.sandbox_logs[k].timestamp + MergeOffset
            /\ \A m \in DOMAIN b.sandbox_logs[k].data :
                  LET old == b.sandbox_logs[k].data[m]
                      new == MergedSandboxRow(k).data[m]
                  IN IF old.key \in {"timestamp", "t"}
                     THEN new = Atom(old.key, Digits(Value(old.digits) + MergeOffset))
                     ELSE new = old

\* C26: main runs every session with a Trader instance of its own, the
\* sessions in ascending order of (round, day) with every day once however
\* the arguments name them, and merge_results is first called when every
\* run_backtest call has returned; the results are merged in that order.
C26_MainOrder ==
    /\ \A k, l \in DOMAIN traders : traders[k] = traders[l] => k = l
    /\ Len(traders) = Len(results) + (IF pc = "aborted" THEN 1 ELSE 0)
    /\ pc /= "args" =>
          /\ Range(days) = Range(args)
          /\ \A k, l \in DOMAIN days : k < l => PairLess(days[k], days[l])
    /\ Len(results) <= Len(days)
    /\ \A k \in DOMAIN results : <<results[k].round, results[k].day>> = days[k]
    /\ a /= NoResult => Len(results) = Len(days)
    /\ merged /= NoResult => Len(results) = Len(days)
    /\ pc = "merge" =>
          /\ b = results[Len(results) - Len(rest)]
          /\ Len(rest) = Len(results) - 2 => a = results[1]

\* C26's case: the arguments name round 2 day 0 twice and before round 1
\* day 0; two sessions ran, each with its own trader, and were merged.
C26_Witness ==
    /\ pc = "merged"
    /\ args = << <<2, 0>>, <<1, 0>>, <<2, 0>> >>
    /\ days = << <<1, 0>>, <<2, 0>> >>
    /\ traders = <<1, 2>>
    /\ Len(results) = 2
    /\ Len(merged.sandbox_logs) = Len(a.sandbox_logs) + Len(b.sandbox_logs)
    /\ b.round = 2

\* Bought minus sold quantity of a list of own trades.
NetQuantity(trades) ==
    SumOver(DOMAIN trades,
            [k \in DOMAIN trades |->
                IF trades[k].buyer = "SUBMISSION" THEN trades[k].quantity
                ELSE -trades[k].quantity])

\* Received minus paid price * quantity of a list of own trades.
NetCash(trades) ==
    SumOver(DOMAIN trades,
            [k \in DOMAIN trades |->
                IF trades[k].seller = "SUBMISSION"
                THEN trades[k].price * trades[k].quantity
                ELSE -(trades[k].price * trades[k].quantity)])

\* The own trades of p a matching step records.
RecordedBy(p) ==
    IF pc = "match"
    THEN SubSeq(TradesOf(own_trades', p), Len(TradesOf(own_trades, p)) + 1,
                Len(TradesOf(own_trades', p)))
    ELSE <<>>

\* Every step within a session moves the position and the cash of each
\* product by exactly the own trades the step records for it; only
\* matching steps record trades, and they drop none.
C27_LedgerStep ==
    pc \notin {"done", "merge", "merged"} =>
        /\ pc = "match" =>
              \A p \in DOMAIN own_trades : IsPrefix(own_trades[p], TradesOf(own_trades', p))
        /\ pc /= "match" => own_trades' \in {own_trades, EmptyDict}
        /\ \A p \in DOMAIN own_positions :
              /\ own_positions'[p] - own_positions[p] = NetQuantity(RecordedBy(p))
              /\ seashells_by_product'[p] - seashells_by_product[p] = NetCash(RecordedBy(p))
              /\ \A k \in DOMAIN RecordedBy(p) :
                    /\ RecordedBy(p)[k].symbol = p
                    /\ RecordedBy(p)[k].timestamp = timestamp
                    /\ RecordedBy(p)[k].quantity > 0

\* Within a timestamp the position of a product is the position the
\* timestamp began with plus the net quantity of the own trades recorded
\* since.
C27_LedgerState ==
    (pc \in {"match", "account"}) =>
        /\ DOMAIN own_trades \subseteq DOMAIN own_positions
        /\ \A p \in DOMAIN own_positions :
              own_positions[p] = Get(state.position, p, 0)
                                 + NetQuantity(TradesOf(own_trades, p))

\* C27: the position of a product is the bought minus the sold quantity of
\* its recorded own trades, summed over the timestamps of the session, its
\* cash the sold minus the bought price * quantity; both change in
\* matching only.
C27_LedgerConsistent == []C27_LedgerState /\ [][C27_LedgerStep]_vars

\* C27's case: 20 PEARLS were bought at the first timestamp for 235 and 3
\* sold at the second for 39; the ledger shows 17 and -196 while own_trades
\* holds the sale only.
C27_Witness ==
    /\ pc = "account"
    /\ t = 2
    /\ own_positions["PEARLS"] = 17
    /\ seashells_by_product["PEARLS"] = -196
    /\ Len(TradesOf(own_trades, "PEARLS")) = 1
    /\ NetQuantity(TradesOf(own_trades, "PEARLS")) = -3
    /\ NetQuantity(TradesOf(state.own_trades, "PEARLS")) = 20

\* The guard judges the batch under a key by the quantities in it, whatever
\* the symbols of its orders; a matching step executes the order against
\* the book, the position, the cash and the trade list of the order's own
\* symbol and of no other product, and the order's key is a tradable
\* product whose batch was not rejected; batches under other keys stay in
\* the mapping as they were returned.
C28_Step ==
    /\ pc = "validate" =>
          LET p == tradable_products[i]
              orders == Get(orders_by_symbol, p, <<>>)
          IN (result'.submission_logs /= result.submission_logs) <=>
                \/ own_positions[p] + RequestedBuy(orders) > LIMITS[p]
                \/ own_positions[p] - RequestedSell(orders) < -LIMITS[p]
    /\ pc = "match" =>
          LET key == tradable_products[i]
              symbol == CurrentOrder.symbol
          IN /\ key \in DOMAIN orders_by_symbol
             /\ ~RejectedAt(key, timestamp)
             /\ \A q \in DOMAIN own_positions \ {symbol} :
                   /\ own_positions'[q] = own_positions[q]
                   /\ seashells_by_product'[q] = seashells_by_product[q]
                   /\ order_depths'[q] = order_depths[q]
                   /\ TradesOf(own_trades', q) = TradesOf(own_trades, q)
             /\ \A k \in DOMAIN TradesOf(own_trades', symbol) :
                   TradesOf(own_trades', symbol)[k].symbol = symbol
             /\ own_positions'[symbol] - own_positions[symbol]
                   = CurrentOrder.quantity - orders_by_symbol'[key][j].quantity
    /\ (pc \notin {"match", "done"}) => own_positions' = own_positions
    /\ (pc \in {"validate", "match"}) =>
          \A k \in DOMAIN orders_by_symbol \ Range(tradable_products) :
              /\ k \in DOMAIN orders_by_symbol'
              /\ orders_by_symbol'[k] = orders_by_symbol[k]

\* No rejection row and no own trade names a key that is no tradable product.
C28_Logged ==
    /\ \A k \in DOMAIN result.submission_logs :
          result.submission_logs[k].data[2] \in Range(tradable_products)
    /\ DOMAIN own_trades \subseteq Range(tradable_products)

\* C28: an order is executed against the product its symbol field names
\* while the guard counts it under the key it was returned under; so an
\* order that moves a position came under a tradable key whose batch
\* passed the guard, and orders under a key that is no tradable product
\* are never validated, matched or logged.
C28_SymbolAndKey == []C28_Logged /\ [][C28_Step]_vars

\* C28's case: the order for 3 PEARLS returned under BANANAS was filled into
\* the PEARLS position, BANANAS is flat, and the order for 30 PEARLS under
\* COCONUTS is still whole, with no rejection row although 30 > 20.
C28_Witness ==
    /\ pc = "account"
    /\ "BANANAS" \in DOMAIN orders_by_symbol
    /\ "COCONUTS" \in DOMAIN orders_by_symbol
    /\ orders_by_symbol["BANANAS"] = <<Order("PEARLS", 12, 0)>>
    /\ orders_by_symbol["COCONUTS"] = <<Order("PEARLS", 12, 30)>>
    /\ own_positions["PEARLS"] = 3
    /\ own_positions["BANANAS"] = 0
    /\ Len(TradesOf(own_trades, "PEARLS")) = 1
    /\ result.submission_logs = <<>>

\* All trades of an own-trade record carry the timestamp ts, and the record
\* has an entry only for a product with a trade.
FilledAtOnly(record, ts) ==
    \A p \in DOMAIN record :
        /\ record[p] /= <<>>
        /\ \A k \in DOMAIN record[p] : record[p][k].timestamp = ts

\* From the start of matching on own_trades holds the fills of the current
\* timestamp and nothing else; a product without an entry has the position
\* the timestamp began with.  The state of a call holds the fills of the
\* timestamp before the call's.
C29_Record ==
    /\ (pc \in {"match", "account"}) =>
          /\ FilledAtOnly(own_trades, timestamp)
          /\ \A p \in DOMAIN own_positions \ DOMAIN own_trades :
                own_positions[p] = Get(state.position, p, 0)
    /\ (pc \in {"call", "done"} /\ t > 1) => FilledAtOnly(own_trades, Timestamps[t - 1])
    /\ (pc \in {"validate", "match", "account"}) =>
          IF t = 1 THEN state.own_trades = EmptyDict
          ELSE FilledAtOnly(state.own_trades, Timestamps[t - 1])

\* The call hands over the record as matching left it, and the guard's
\* last step empties it.
C29_Step ==
    /\ (pc = "call" /\ pc' \in {"validate", "account"}) => state'.own_trades = own_trades
    /\ (pc = "validate" /\ pc' \in {"match", "account"}) => own_trades' = EmptyDict

C30_ValuedAtSnapshot ==
    (pc \in {"call", "validate", "done"} /\ t > 1) =>
        \A p \in Range(tradable_products) : \A n \in ActivityRowsOf(Timestamps[t - 1], p) :
            LET price == PriceRowOf(Timestamps[t - 1], p)
                columns == result.activity_logs[n].columns
                position == own_positions[p]
            IN /\ SubSeq(columns, 4, 15) = SnapshotLevels(price)
               /\ position > 0 =>
                     columns[17] = seashells_by_product[p] + position * price.bid_prices[1]
               /\ position < 0 =>
                     columns[17] = seashells_by_product[p] + position * price.ask_prices[1]
               /\ position = 0 => columns[17] = seashells_by_product[p]

\* C30's case: 20 PEARLS bought at timestamp 0, and at timestamp 100 a sale
\* took the whole bid level 13 x 5; the book has no bid left, the row still
\* shows 13 x 5 and values the 15 PEARLS held at 13: -170 + 195 = 25.
C30_Witness ==
    /\ pc = "call"
    /\ t = 3
    /\ own_positions["PEARLS"] = 15
    /\ seashells_by_product["PEARLS"] = -170
    /\ DOMAIN order_depths["PEARLS"].buy_orders = {}
    /\ \E n \in ActivityRowsOf(100, "PEARLS") :
          /\ result.activity_logs[n].columns[4] = 13
          /\ result.activity_logs[n].columns[5] = 5
          /\ result.activity_logs[n].columns[17] = 25

\* The profit main's summary reads from an unmerged result: the P&L of the
\* rows of its last timestamp, summed.
SessionProfit(x) ==
    LET last_timestamp == x.activity_logs[Len(x.activity_logs)].columns[2]
        rows == {k \in DOMAIN x.activity_logs :
                    x.activity_logs[k].columns[2] = last_timestamp}
    IN SumOver(rows, [k \in rows |-> x.activity_logs[k].columns[17]])

\* A call of merge_results leaves both arguments and every element of
\* `results` as they were, and reduce takes its next argument from
\* `results` without writing to the list.
C31_MergeStep ==
    /\ pc = "merge" =>
          /\ a' = a
          /\ b' = b
          /\ results' = results
          /\ \A k \in DOMAIN results : SessionProfit(results'[k]) = SessionProfit(results[k])
    /\ pc = "merged" =>
          /\ results' = results
          /\ b' = results[Len(results) - Len(rest')]

\* The second argument of merge_results is an element of `results`, and so
\* is the first in reduce's first call.
C31_Arguments ==
    (pc \in {"merge", "merged"}) =>
        /\ b = results[Len(results) - Len(rest)]
        /\ Len(results) - Len(rest) = 2 => a = results[1]

\* C31: merge_results does not modify its inputs: after the call every log
\* of a and of b has the rows, timestamps, text and P&L it had before, so
\* the profit read from the unmerged results after merging is the profit
\* each session computed.
C31_InputsUntouched == []C31_Arguments /\ [][C31_MergeStep]_vars

\* C31's case: three sessions are folded with the flag on; the merged log
\* shows the third session's PEARLS at 6 and at timestamp 300, while the
\* third result itself still reads -6 at timestamp 0 and the first result
\* still has its two activity rows only.
C31_Witness ==
    /\ pc = "merged"
    /\ merge_profit_loss
    /\ Len(results) = 3
    /\ rest = <<>>
    /\ b = results[3]
    /\ FinalProfitLoss(merged, "PEARLS") = 6
    /\ merged.activity_logs[Len(merged.activity_logs)].columns[2] = 300
    /\ SessionProfit(results[3]) = -6
    /\ results[3].activity_logs[Len(results[3].activity_logs)].columns[2] = 0
    /\ Len(results[1].activity_logs) = 2
    /\ Len(results[1].sandbox_logs) = 1
=============================================================================
